---- MODULE Spec2Model ----
(***************************************************************************)
(* A model of citadel-tools: the installer backend (the D-Bus main loop    *)
(* of citadel-tool/src/install_backend/dbus.rs driving the Installer of    *)
(* citadel-tool/src/install/installer.rs) and the RealmFS mountpoint       *)
(* lifecycle, image update and fork of libcitadel/src/realmfs.             *)
(*                                                                         *)
(* Several specifications share the module; each moves the variables of    *)
(* one part of the program and leaves the others as constructed.           *)
(***************************************************************************)
EXTENDS Naturals, Sequences, FiniteSets, TLC

VARIABLES
    \* ---- installer backend ----
    pending,    \* D-Bus method calls sent by clients, not yet dispatched
    replies,    \* ids of the method calls the main loop has answered
    queue,      \* the mpsc channel of Msg (dbus.rs:178)
    signals,    \* D-Bus signals sent so far, in order
    loop,       \* where the main loop thread is: process, recv, install, stopped
    cur,        \* the install the main loop thread is running (0: none)
    pc,         \* next operation of the pipeline for install cur (0: verify)
    ran,        \* per install, the operations executed so far (history)
    result,     \* per install: "none", "running", "ok" or the error text
    target,     \* per install: the device it was asked to install to
    sys,        \* what the pipeline leaves on the machine
    artifacts,  \* files present in the artifact directory
    \* ---- RealmFS / Mountpoint ----
    mp,         \* per RealmFS: its mountpoint directory, mounts on it, dm-verity device
    img,        \* per RealmFS: the image file (header flag, signature, hashtrees appended)
    nosig,      \* CommandLine::nosignatures()
    running,    \* realms that are running
    refs,       \* the manager's mountpoint refcount
    rpc,        \* per worker: where it is in its operation
    oplog,      \* per worker: the operation it runs or ran last, and what it did (history)
    serial,     \* TRUE: callers run one operation at a time
    \* ---- the per-image file lock ----
    lockfile,   \* the file at <image>.lock (0: none, else which file)
    created,    \* lock files created so far
    flocked,    \* the exclusive flock(2) locks held: [file, by]
    upc,        \* per contender: where it is in Update::create or in the drop
    ufd,        \* per contender: the lock file it has open (0: none)
    utries,     \* per contender: rounds of open_lockfile's loop made
    ures,       \* per contender: what its last Update::create returned
    keys,       \* the user sealing keys are in the kernel keyring
    \* ---- Update of a RealmFS image ----
    files,      \* image files of the RealmFS: which image each path holds (0: no file)
    mdir,       \* the update mount directory exists
    umounts,    \* mounts on the update mount directory
    addr,       \* the bridge allocator has an address for the update's name
    network_allocated,  \* field of Update
    ust,        \* where the Update is (none: no Update exists)
    cret,       \* where cleanup returns to
    uret,       \* where unmount_update_image returns to
    nupd,       \* Updates created so far
    ulog,       \* what the Update did so far (history)
    pre,        \* files when the Update was created (history)
    rpre,       \* files when rotate was entered (history)
    \* ---- RealmFS::fork ----
    images,     \* per image name: the file <name>-realmfs.img (NoImage: no file)
    fpc,        \* per caller: where it is in fork
    fname,      \* per caller: the new name it forks to
    fsrc,       \* per caller: the name of the RealmFS it forks
    fres,       \* per caller: what fork returned
    fsnap,      \* per caller: images when it called fork (history)
    \* ---- RealmFS::load_by_name, RealmFS::load_from_path ----
    lpc,        \* where the load is
    larg,       \* the name load_by_name was called with (<<"path">>: load_from_path)
    lfile,      \* the file at the path that is loaded (NoHeader: no file)
    lres,       \* what the load returned
    \* ---- citadel-realms-ui: InstanceTracker ----
    holder,     \* the process whose socket is bound to the abstract name ("none": free)
    listening,  \* the bound socket listens
    backlog,    \* connections made to the bound socket and not yet accepted
    ipc,        \* per process: where its main thread is ("off": not running)
    tog,        \* per process: the toggle argument of bind
    bres,       \* per process: what try_bind returned
    iret,       \* per process: what bind returned
    conn,       \* per process: its connect to the socket succeeded
    rd,         \* per process: where its reader thread is ("none": not spawned)
    quitq,      \* per process: the idle source calling gtk::main_quit is queued
    \* ---- name validation ----
    vname,      \* the name given to RealmFS::is_valid_name
    vres,       \* what it answered ("none": not asked yet)
    \* ---- RealmOverlay ----
    ov,         \* per overlay type: the overlay directory of the realm and what is in it
    opc,        \* where the create or remove is
    oarg,       \* the call: create or remove, the overlay type, the lower path
    rlink,      \* remove: what reading the lower link gave
    ores,       \* what the call returned
    lastcreate, \* per overlay type: the lower path of the last create and whether it returned Ok (history)
    \* ---- RealmCreateDestroy ----
    final,      \* the tree at /realms/realm-<name> (NoTree: the path does not exist)
    staging,    \* the tree at /realms/.tmp/realm-<name>
    saved,      \* home directories moved to /realms/removed
    cpc,        \* where the create or delete_realm is
    cop,        \* the call: create or delete, and save_home
    cres,       \* what the call returned
    \* ---- resize of a RealmFS image ----
    rzpc,       \* where the resize is
    rzimg,      \* the image: metainfo nblocks, free blocks of its superblock, FLAG_HASH_TREE, blocks after the filesystem, superblock readable
    resize,     \* Update.resize: the resize stored in the Update
    auto,       \* what auto_resize_size returned when the Update was made (history)
    target_len, \* the length of the update copy in blocks (0: no copy)
    rzres,      \* what the operation returned
    rzop,          \* which operation made the Update: "grow_to", "grow_by", "setup"
    \* ---- citadel-installer-ui: the install page ----
    fraction,   \* the fraction last given to install_progress.set_fraction, in 1/10000
    progress,   \* the messages the UI received so far (history)
    \* ---- Mountpoint file names ----
    pfpc,       \* where the Mountpoint is: none, new, parsed
    pfname,     \* the RealmFS name Mountpoint::new was called with
    pftag,      \* the verity tag it was called with
    pfmp,       \* the file name of the Mountpoint
    pfdev,      \* what Mountpoint::verity_device returned (not ok: it panicked)
    hdisk,         \* stale header: the verity tag of the image header on disk
    hmem,          \* the verity tag of the header the RealmFS holds in memory
    smp,           \* the tag of the Mountpoint the RealmFS holds
    stself,        \* the tag of the Mountpoint activate works on, 0 when none
    stdirs,        \* the tags whose mountpoint directory exists
    stdevs,        \* the tags whose dm-verity device exists
    stmnt,         \* the tags whose mountpoint has the image mounted
    stpc,          \* where RealmFS::activate is
    stres,         \* what the last activate returned
    stmade         \* the tag of the dm-verity device that activate has set up, 0 when none

installVars == <<pending, replies, queue, signals, loop, cur, pc, ran, result, target, sys, artifacts>>
realmVars == <<mp, img, nosig, running, refs, rpc, oplog, serial>>
lockVars == <<lockfile, created, flocked, upc, ufd, utries, ures, keys>>
updVars == <<files, mdir, umounts, addr, network_allocated, ust, cret, uret, nupd, ulog, pre, rpre>>
forkVars == <<images, fpc, fname, fsrc, fres, fsnap>>
loadVars == <<lpc, larg, lfile, lres>>
uiVars == <<holder, listening, backlog, ipc, tog, bres, iret, conn, rd, quitq>>
nameVars == <<vname, vres>>
ovVars == <<ov, opc, oarg, rlink, ores, lastcreate>>
cdVars == <<final, staging, saved, cpc, cop, cres>>
rzVars == <<rzpc, rzimg, resize, auto, target_len, rzres, rzop>>
pgVars == <<fraction, progress>>
pfVars == <<pfpc, pfname, pftag, pfmp, pfdev>>
stVars == <<hdisk, hmem, smp, stself, stdirs, stdevs, stmnt, stpc, stres, stmade>>
extVars == <<loadVars, uiVars, nameVars, ovVars, cdVars, rzVars, pgVars, pfVars, stVars>>
imageVars == <<lockVars, updVars, forkVars, extVars>>
vars == <<installVars, realmVars, imageVars>>

\* ------------------------------------------------------------------ bounds

\* RunInstall calls clients make
MaxInstalls == 1
\* GetDisks calls clients make
MaxGetDisks == 1

InstallIds == 1..MaxInstalls
\* RunInstall calls clients make where requests queue up
MaxQueued == 2
QueuedIds == 1..MaxQueued
\* Realm and RealmFS operations in progress at the same time, where callers overlap
MaxConcurrent == 2

\* ------------------------------------------------------ installer constants

LUKS_PASSPHRASE_FILE == "/run/installer/luks-passphrase"
INSTALL_MOUNT == "/run/installer/mnt"
EXTRA_IMAGE_NAME == "citadel-extra.img"

\* A subprocess run through run_cmd: its error names args[0].
Cmd(step, name, prog) == [step |-> step, name |-> name, kind |-> "cmd", text |-> prog]
\* A filesystem call of libcitadel::util: its error names the call.
Fs(step, name) == [step |-> step, name |-> name, kind |-> "fs", text |-> name]
\* An existence test followed by bail!.
Check(step, name) == [step |-> step, name |-> name, kind |-> "check", text |-> name]

PARTITION_COMMANDS == <<
    Cmd("partition_disk", "blkdeactivate", "/sbin/blkdeactivate"),
    Cmd("partition_disk", "parted mklabel gpt", "/sbin/parted"),
    Cmd("partition_disk", "parted mkpart boot", "/sbin/parted"),
    Cmd("partition_disk", "parted set 1 boot on", "/sbin/parted"),
    Cmd("partition_disk", "parted mkpart data", "/sbin/parted"),
    Cmd("partition_disk", "parted set 2 lvm on", "/sbin/parted") >>

LUKS_COMMANDS == <<
    Cmd("setup_luks", "cryptsetup luksFormat", "/sbin/cryptsetup"),
    Cmd("setup_luks", "cryptsetup open luks-install", "/sbin/cryptsetup") >>

LVM_COMMANDS == <<
    Cmd("setup_lvm", "pvcreate", "/sbin/pvcreate"),
    Cmd("setup_lvm", "vgcreate citadel", "/sbin/vgcreate"),
    Cmd("setup_lvm", "lvcreate rootfsA", "/sbin/lvcreate"),
    Cmd("setup_lvm", "lvcreate rootfsB", "/sbin/lvcreate"),
    Cmd("setup_lvm", "lvcreate storage", "/sbin/lvcreate") >>

CREATE_STORAGE_COMMANDS == <<
    Cmd("create_storage", "mkfs.btrfs", "/bin/mkfs.btrfs"),
    Cmd("create_storage", "mount storage", "/bin/mount") >>

FINISH_COMMANDS == <<
    Cmd("finish_install", "lsblk", "/bin/lsblk"),
    Cmd("finish_install", "vgchange -an citadel", "/sbin/vgchange"),
    Cmd("finish_install", "cryptsetup luksClose luks-install", "/sbin/cryptsetup") >>

partition_disk == PARTITION_COMMANDS

setup_luks ==
    << Fs("setup_luks", "create_dir INSTALL_MOUNT"),
       Fs("setup_luks", "write_file LUKS_PASSPHRASE_FILE") >>
    \o LUKS_COMMANDS
    \o << Fs("setup_luks", "remove_file LUKS_PASSPHRASE_FILE") >>

setup_lvm == LVM_COMMANDS

setup_syslinux == <<
    Check("setup_boot", "syslinux exists"),
    Fs("setup_boot", "create_dir syslinux"),
    Fs("setup_boot", "copy syslinux files"),
    Fs("setup_boot", "write_file syslinux.cfg"),
    Cmd("setup_boot", "extlinux --install", "/sbin/extlinux") >>

setup_syslinux_post_umount == <<
    Check("setup_boot", "syslinux/gptmbr.bin exists"),
    Cmd("setup_boot", "dd gptmbr.bin", "/bin/dd"),
    Cmd("setup_boot", "parted set 1 legacy_boot on", "/sbin/parted") >>

\* install_syslinux is true for the backend (dbus.rs:85)
setup_boot ==
    << Cmd("setup_boot", "mkfs.vfat", "/sbin/mkfs.vfat"),
       Cmd("setup_boot", "mount boot", "/bin/mount"),
       Fs("setup_boot", "create_dir loader/entries"),
       Fs("setup_boot", "write_file loader.conf"),
       Fs("setup_boot", "write_file boot.conf"),
       Fs("setup_boot", "copy_artifact bzImage"),
       Fs("setup_boot", "copy_artifact bootx64.efi") >>
    \o setup_syslinux
    \o << Cmd("setup_boot", "umount boot", "/bin/umount") >>
    \o setup_syslinux_post_umount

setup_storage_resources == <<
    Fs("create_storage", "create_dir resources"),
    Cmd("create_storage", "cp citadel-extra.img", "/bin/cp"),
    Cmd("create_storage", "cp citadel-kernel.img", "/bin/cp") >>

setup_base_realmfs == <<
    Fs("create_storage", "create_dir realmfs-images"),
    Cmd("create_storage", "cp base-realmfs.img", "/bin/cp"),
    Cmd("create_storage", "citadel-image decompress", "/usr/bin/citadel-image") >>

\* _type is Install (installer.rs:137)
setup_storage ==
    << Fs("create_storage", "create_keyring") >>
    \o setup_storage_resources
    \o setup_base_realmfs
    \o << Fs("create_storage", "setup_realm_skel"),
          Fs("create_storage", "setup_main_realm"),
          Fs("create_storage", "setup_apt_cacher_realm"),
          Fs("create_storage", "setup_citadel_passphrase"),
          Fs("create_storage", "write_file realms/config"),
          Fs("create_storage", "create_dir realms/Shared"),
          Fs("create_storage", "chown_user realms/Shared") >>

create_storage ==
    CREATE_STORAGE_COMMANDS
    \o setup_storage
    \o << Cmd("create_storage", "umount storage", "/bin/umount") >>

install_rootfs_partitions == <<
    Cmd("install_rootfs_partitions", "citadel-image install-rootfs", "/usr/bin/citadel-image"),
    Cmd("install_rootfs_partitions", "citadel-image install-rootfs --no-prefer", "/usr/bin/citadel-image") >>

\* Mutant of finish_install: the volume group is left active
finish_install_vgActive == << FINISH_COMMANDS[1], FINISH_COMMANDS[3] >>

\* Installer::finish_install (installer.rs:506-510)
finish_install == FINISH_COMMANDS


\* Installer::run_install as the backend drives it (dbus.rs:87-98), verify excepted
PIPELINE ==
    partition_disk \o setup_luks \o setup_lvm \o setup_boot
    \o create_storage \o install_rootfs_partitions \o finish_install

\* The Msg the backend sends once a step has returned Ok ("none": no message)
StageMsg(step) ==
    CASE step = "setup_luks" -> "LuksSetup"
      [] step = "setup_lvm" -> "LvmSetup"
      [] step = "setup_boot" -> "BootSetup"
      [] step = "create_storage" -> "StorageCreated"
      [] step = "install_rootfs_partitions" -> "RootfsInstalled"
      [] OTHER -> "none"

StageText(type) ==
    CASE type = "LuksSetup" -> "+ Setup LUKS disk encryption password successfully"
      [] type = "LvmSetup" -> "+ Setup LVM volumes successfully"
      [] type = "BootSetup" -> "+ Setup /boot partition successfully"
      [] type = "StorageCreated" -> "+ Setup /storage partition successfully"
      [] type = "RootfsInstalled" -> "+ Installed rootfs partitions successfully"
      [] OTHER -> ""

\* Files of the artifact directory the install reads
AllArtifacts == {"bootx64.efi", "bzImage", "citadel-kernel.img", EXTRA_IMAGE_NAME,
                 "base-realmfs.img", "citadel-rootfs.img", "syslinux", "syslinux/gptmbr.bin"}

\* The artifacts Installer::verify looks for
VerifiedArtifacts == {"bootx64.efi", "bzImage", "citadel-kernel.img", EXTRA_IMAGE_NAME}

Devices == {"/dev/sda", "/dev/absent"}
TargetExists(d) == d = "/dev/sda"

\* The artifact an operation reads ("none": it reads none)
Needs(name) ==
    CASE name = "copy_artifact bzImage" -> "bzImage"
      [] name = "copy_artifact bootx64.efi" -> "bootx64.efi"
      [] name = "syslinux exists" -> "syslinux"
      [] name = "syslinux/gptmbr.bin exists" -> "syslinux/gptmbr.bin"
      [] name = "cp citadel-extra.img" -> EXTRA_IMAGE_NAME
      [] name = "cp citadel-kernel.img" -> "citadel-kernel.img"
      [] name = "cp base-realmfs.img" -> "base-realmfs.img"
      [] name = "citadel-image install-rootfs" -> "citadel-rootfs.img"
      [] name = "citadel-image install-rootfs --no-prefer" -> "citadel-rootfs.img"
      [] OTHER -> "none"

\* What a successful operation changes on the machine (a failed one changes nothing)
Effect(name, s) ==
    CASE name \in {"parted mklabel gpt", "parted mkpart boot", "parted set 1 boot on",
                   "parted mkpart data", "parted set 2 lvm on"} -> [s EXCEPT !.diskWritten = TRUE]
      [] name = "write_file LUKS_PASSPHRASE_FILE" -> [s EXCEPT !.passfile = TRUE]
      [] name = "remove_file LUKS_PASSPHRASE_FILE" -> [s EXCEPT !.passfile = FALSE]
      [] name = "cryptsetup luksFormat" -> [s EXCEPT !.diskWritten = TRUE]
      [] name = "cryptsetup open luks-install" -> [s EXCEPT !.luksOpen = TRUE]
      [] name \in {"lvcreate rootfsA", "lvcreate rootfsB", "lvcreate storage"} -> [s EXCEPT !.vgActive = TRUE]
      [] name \in {"mount boot", "mount storage"} -> [s EXCEPT !.mounted = TRUE]
      [] name \in {"umount boot", "umount storage"} -> [s EXCEPT !.mounted = FALSE]
      [] name = "vgchange -an citadel" -> [s EXCEPT !.vgActive = FALSE]
      [] name = "cryptsetup luksClose luks-install" -> [s EXCEPT !.luksOpen = FALSE]
      [] OTHER -> s

\* Whether an operation can return Ok, can return Err, or both
Outcomes(op) ==
    IF Needs(op.name) # "none" /\ Needs(op.name) \notin artifacts THEN {FALSE}
    ELSE IF op.kind = "check" THEN {TRUE}
    ELSE {TRUE, FALSE}

Msg(type, text, inst) == [type |-> type, text |-> text, inst |-> inst]

\* ----------------------------------------------------------- installer: Init

InstallInit ==
    /\ pending = <<>>
    /\ replies = {}
    /\ queue = <<>>
    /\ signals = << Msg("ServiceStarted", "", 0) >>
    /\ loop = "process"
    /\ cur = 0
    /\ pc = 0
    /\ ran = [i \in InstallIds |-> <<>>]
    /\ result = [i \in InstallIds |-> "none"]
    /\ target = [i \in InstallIds |-> "none"]
    /\ sys = [passfile |-> FALSE, luksOpen |-> FALSE, vgActive |-> FALSE,
              mounted |-> FALSE, diskWritten |-> FALSE]
    /\ \E missing \in {{}} \cup {{a} : a \in AllArtifacts} : artifacts = AllArtifacts \ missing

\* -------------------------------------------------------- installer: actions

Call(method, n, device) == [method |-> method, n |-> n, device |-> device]

\* RunInstall calls made so far
CallsMade == {i \in DOMAIN target : target[i] # "none"}
\* GetDisks calls made so far
DisksCallsMade ==
    {c.n : c \in {d \in {pending[k] : k \in 1..Len(pending)} \cup replies : d.method = "GetDisks"}}

\* A client calls RunInstall(device, citadel_passphrase, luks_passphrase)
ClientRunInstall ==
    /\ loop # "stopped"
    /\ \E i \in DOMAIN target, d \in Devices :
        /\ i \notin CallsMade
        /\ \A j \in 1..(i - 1) : j \in CallsMade
        /\ target' = [target EXCEPT ![i] = d]
        /\ pending' = Append(pending, Call("RunInstall", i, d))
    /\ UNCHANGED <<replies, queue, signals, loop, cur, pc, ran, result, sys, artifacts, realmVars, imageVars>>

\* A client calls GetDisks()
ClientGetDisks ==
    /\ loop # "stopped"
    /\ \E n \in 1..MaxGetDisks :
        /\ n \notin DisksCallsMade
        /\ \A m \in 1..(n - 1) : m \in DisksCallsMade
        /\ pending' = Append(pending, Call("GetDisks", n, "none"))
    /\ UNCHANGED <<replies, queue, signals, loop, cur, pc, ran, result, target, sys, artifacts, realmVars, imageVars>>

\* Mutant of RunInstallMsgs: the requests are enqueued last call first
RunInstallMsgs_reversed(calls) ==
    LET sel == SelectSeq(calls, LAMBDA c : c.method = "RunInstall")
    IN [k \in 1..Len(sel) |-> Msg("RunInstall", sel[Len(sel) + 1 - k].device, sel[Len(sel) + 1 - k].n)]

\* The RunInstall method handler (dbus.rs:59-65): one Msg::RunInstall per call
RunInstallMsgs(calls) ==
    LET sel == SelectSeq(calls, LAMBDA c : c.method = "RunInstall")
    IN [k \in 1..Len(sel) |-> Msg("RunInstall", sel[k].device, sel[k].n)]

\* connection.process(1000 ms) returns Ok: the method calls that have arrived are
\* dispatched, each is answered (RunInstall with true, GetDisks with the disk list)
Process ==
    /\ loop = "process"
    /\ queue' = queue \o RunInstallMsgs(pending)
    /\ replies' = replies \cup {pending[k] : k \in 1..Len(pending)}
    /\ pending' = <<>>
    /\ loop' = "recv"
    /\ UNCHANGED <<signals, cur, pc, ran, result, target, sys, artifacts, realmVars, imageVars>>

\* connection.process returns Err: start() returns it and the loop is over
ProcessError ==
    /\ loop = "process"
    /\ loop' = "stopped"
    /\ UNCHANGED <<pending, replies, queue, signals, cur, pc, ran, result, target, sys, artifacts, realmVars, imageVars>>

\* The D-Bus signal a Msg is forwarded as (dbus.rs:209-229)
SignalOf(msg) == Msg(msg.type, msg.text, msg.inst)

\* receiver.try_recv() and the match on the message (dbus.rs:193-231).  A
\* Msg::RunInstall makes this thread call Self::run_install (dbus.rs:198).
Recv ==
    /\ loop = "recv"
    /\ IF queue = <<>>
       THEN /\ loop' = "process"
            /\ UNCHANGED <<queue, signals, cur, pc, result>>
       ELSE LET msg == Head(queue) IN
            /\ queue' = Tail(queue)
            /\ IF msg.type = "RunInstall"
               THEN /\ loop' = "install"
                    /\ cur' = msg.inst
                    /\ pc' = 0
                    /\ result' = [result EXCEPT ![msg.inst] = "running"]
                    /\ UNCHANGED signals
               ELSE /\ signals' = Append(signals, SignalOf(msg))
                    /\ loop' = "process"
                    /\ UNCHANGED <<cur, pc, result>>
    /\ UNCHANGED <<pending, replies, ran, target, sys, artifacts, realmVars, imageVars>>

\* Mutant of TerminalMsg: the Err arm reports completion too
TerminalMsg_completedOnError(res, i) == Msg("InstallCompleted", "", i)

\* The Msg sent when Self::run_install has returned (dbus.rs:198-207)
TerminalMsg(res, i) ==
    IF res = "ok" THEN Msg("InstallCompleted", "", i) ELSE Msg("InstallFailed", res, i)

\* Self::run_install returns res to the match in start()
Return(res, q) ==
    /\ result' = [result EXCEPT ![cur] = res]
    /\ queue' = Append(q, TerminalMsg(res, cur))
    /\ loop' = "process"
    /\ cur' = 0
    /\ pc' = 0

\* Installer::verify (installer.rs:185-204): "ok" or the error
verify(i) ==
    IF ~TargetExists(target[i]) THEN "target device does not exist"
    ELSE IF ~(VerifiedArtifacts \subseteq artifacts) THEN "required install artifact does not exist"
    ELSE "ok"

Verify ==
    /\ loop = "install"
    /\ pc = 0
    /\ IF verify(cur) = "ok"
       THEN /\ pc' = 1
            /\ UNCHANGED <<queue, result, loop, cur>>
       ELSE Return(verify(cur), queue)
    /\ UNCHANGED <<pending, replies, signals, ran, target, sys, artifacts, realmVars, imageVars>>

\* Mutant of run_cmd: the exit status is not looked at
run_cmd_unchecked(op, ok) == "ok"

\* What an operation that exited with status ok returns to its caller: run_cmd
\* (installer.rs:605-635) bails on a non-zero exit, the util calls return their error
run_cmd(op, ok) == IF ok THEN "ok" ELSE op.text

\* The messages sent once operation k of the pipeline has returned Ok: the stage
\* message when k ends a step that has one (dbus.rs:89-97)
StageMsgs(k, i) ==
    IF (k = Len(PIPELINE) \/ PIPELINE[k + 1].step # PIPELINE[k].step)
       /\ StageMsg(PIPELINE[k].step) # "none"
    THEN << Msg(StageMsg(PIPELINE[k].step), StageText(StageMsg(PIPELINE[k].step)), i) >>
    ELSE << >>

\* One operation of the pipeline; `?` returns its error from run_install
RunOp ==
    /\ loop = "install"
    /\ pc \in 1..Len(PIPELINE)
    /\ LET op == PIPELINE[pc] IN
       \E ok \in Outcomes(op) :
        /\ ran' = [ran EXCEPT ![cur] = Append(@, [name |-> op.name, ok |-> ok])]
        /\ sys' = IF ok THEN Effect(op.name, sys) ELSE sys
        /\ IF run_cmd(op, ok) # "ok"
           THEN Return(run_cmd(op, ok), queue)
           ELSE IF pc = Len(PIPELINE)
           THEN Return("ok", queue \o StageMsgs(pc, cur))
           ELSE /\ pc' = pc + 1
                /\ queue' = queue \o StageMsgs(pc, cur)
                /\ UNCHANGED <<result, loop, cur>>
    /\ UNCHANGED <<pending, replies, signals, target, artifacts, realmVars, imageVars>>

InstallNext ==
    \/ ClientRunInstall
    \/ ClientGetDisks
    \/ Process
    \/ ProcessError
    \/ Recv
    \/ Verify
    \/ RunOp

\* ------------------------------------------------------ RealmFS / Mountpoint

RealmFSNames == {"base"}
Realms == {"r1", "r2"}
\* "cli" calls RealmFS::activate and RealmFS::deactivate directly
Workers == Realms \cup {"cli"}
\* the realmfs option of the realm's configuration
RealmFSOf(w) == "base"

\* Mountpoint::exists (mountpoint.rs:64-66)
exists(f) == mp[f].dir
\* Mountpoint::is_mounted (mountpoint.rs:68-71): the mounted image has an etc/
is_mounted(f) == mp[f].mounts > 0
\* verity_device_path().exists() (mountpoint.rs:86-87, 139-140)
verity_exists(f) == mp[f].verity
\* RealmFS::is_in_use (realmfs.rs:249-251) through the manager's refcount
is_in_use(f) == refs[f] > 0

NewLog(op) == [op |-> op, steps |-> <<>>, res |-> "none"]
Logged(w, name, ok) == [oplog EXCEPT ![w].steps = Append(@, [name |-> name, ok |-> ok])]

RealmInit ==
    /\ mp = [f \in RealmFSNames |-> [dir |-> FALSE, mounts |-> 0, verity |-> FALSE]]
    /\ img \in [RealmFSNames -> {[hashtree |-> h, sigOk |-> v, trees |-> IF h THEN 1 ELSE 0] :
                                    h \in BOOLEAN, v \in BOOLEAN}]
    /\ nosig \in BOOLEAN
    /\ running = {}
    /\ refs = [f \in RealmFSNames |-> 0]
    /\ rpc = [w \in Workers |-> "idle"]
    /\ oplog = [w \in Workers |-> NewLog("none")]
    /\ serial = TRUE

\* A caller may begin an operation
MayBegin(w) ==
    /\ rpc[w] = "idle"
    /\ Cardinality({v \in Workers : rpc[v] # "idle"}) < (IF serial THEN 1 ELSE MaxConcurrent)

Begin(w, op, at) ==
    /\ MayBegin(w)
    /\ rpc' = [rpc EXCEPT ![w] = at]
    /\ oplog' = [oplog EXCEPT ![w] = NewLog(op)]
    /\ UNCHANGED <<mp, img, nosig, running, refs, serial, installVars, imageVars>>

\* Start of a realm: its RealmFS is activated first
BeginStart(w) == w \in Realms /\ w \notin running /\ Begin(w, "start", "act_check")
\* Stop of a running realm
BeginStop(w) == w \in Realms /\ w \in running /\ Begin(w, "stop", "stop_unref")
\* RealmFS::activate (realmfs.rs:405-407)
BeginActivate(w) == w = "cli" /\ Begin(w, "activate", "act_check")
\* RealmFS::deactivate (realmfs.rs:255-259)
BeginDeactivate(w) == w = "cli" /\ Begin(w, "deactivate", "rd_inuse")

\* The operation of worker w is over with result res
Finish(w, res, log) ==
    /\ rpc' = [rpc EXCEPT ![w] = "done"]
    /\ oplog' = [log EXCEPT ![w].res = res]

\* Mountpoint::activate has returned res to its caller: a realm start goes on to
\* take its reference, RealmFS::activate returns
ActivateReturns(w, res, log) ==
    IF oplog[w].op = "start" /\ res = "ok"
    THEN /\ rpc' = [rpc EXCEPT ![w] = "start_ref"]
         /\ oplog' = log
    ELSE Finish(w, res, log)

\* Mutant of ActCheck: no early return when already mounted
ActCheck_noEarlyReturn(w) ==
    /\ rpc[w] = "act_check"
    /\ rpc' = [rpc EXCEPT ![w] = "act_mkdir"]
    /\ UNCHANGED <<mp, img, nosig, running, refs, oplog, serial, installVars, imageVars>>

\* mountpoint.rs:80-82
ActCheck(w) ==
    /\ rpc[w] = "act_check"
    /\ IF is_mounted(RealmFSOf(w))
       THEN ActivateReturns(w, "ok", oplog)
       ELSE /\ rpc' = [rpc EXCEPT ![w] = "act_mkdir"]
            /\ UNCHANGED oplog
    /\ UNCHANGED <<mp, img, nosig, running, refs, serial, installVars, imageVars>>

\* util::create_dir(self.path())? (mountpoint.rs:84, util.rs:224-231)
ActMkdir(w) ==
    /\ rpc[w] = "act_mkdir"
    /\ LET f == RealmFSOf(w) IN
       IF exists(f)
       THEN /\ rpc' = [rpc EXCEPT ![w] = "act_verity"]
            /\ UNCHANGED <<mp, oplog>>
       ELSE \E ok \in BOOLEAN :
            IF ok
            THEN /\ mp' = [mp EXCEPT ![f].dir = TRUE]
                 /\ rpc' = [rpc EXCEPT ![w] = "act_verity"]
                 /\ oplog' = Logged(w, "create_dir", TRUE)
            ELSE /\ UNCHANGED mp
                 /\ ActivateReturns(w, "err", Logged(w, "create_dir", FALSE))
    /\ UNCHANGED <<img, nosig, running, refs, serial, installVars, imageVars>>

\* mountpoint.rs:86-89: an existing verity device is adopted
ActVerity(w) ==
    /\ rpc[w] = "act_verity"
    /\ rpc' = [rpc EXCEPT ![w] = IF verity_exists(RealmFSOf(w)) THEN "act_mount" ELSE "sv_sig"]
    /\ UNCHANGED <<mp, img, nosig, running, refs, oplog, serial, installVars, imageVars>>

\* Mutant of SvSig: setup_verity goes on without asking for the signature
SvSig_unchecked(w) ==
    /\ rpc[w] = "sv_sig"
    /\ rpc' = [rpc EXCEPT ![w] = "sv_gen"]
    /\ UNCHANGED <<mp, img, nosig, running, refs, oplog, serial, installVars, imageVars>>

\* setup_verity: the signature check (mountpoint.rs:103-105)
SvSig(w) ==
    /\ rpc[w] = "sv_sig"
    /\ IF nosig
       THEN /\ rpc' = [rpc EXCEPT ![w] = "sv_gen"]
            /\ UNCHANGED oplog
       ELSE /\ rpc' = [rpc EXCEPT ![w] = IF img[RealmFSOf(w)].sigOk THEN "sv_gen" ELSE "act_rmdir"]
            /\ oplog' = Logged(w, "verify_signature", img[RealmFSOf(w)].sigOk)
    /\ UNCHANGED <<mp, img, nosig, running, refs, serial, installVars, imageVars>>

\* How generate_verity can end on an image of the expected length: all of it
\* done; failed before anything was appended (Verity::new, the loop device,
\* veritysetup format, opening either file); failed once the hashtree was being
\* appended or was appended (io::copy, removing the .verity file); the hashtree
\* appended and the flag set but write_header_to failed
\* (mountpoint.rs:114-122, verity.rs:40-65)
GenerateOutcomes == {"ok", "not appended", "appended", "header not written"}

\* Mutant of SvGen: a hashtree is generated whether or not the header has the
\* flag, and appended whatever the length of the image file is
SvGen_always(w) ==
    /\ rpc[w] = "sv_gen"
    /\ img' = [img EXCEPT ![RealmFSOf(w)].hashtree = TRUE, ![RealmFSOf(w)].trees = @ + 1]
    /\ rpc' = [rpc EXCEPT ![w] = "sv_setup"]
    /\ oplog' = Logged(w, "generate_verity", TRUE)
    /\ UNCHANGED <<mp, nosig, running, refs, serial, installVars, imageVars>>

\* setup_verity: generate_verity when the header lacks FLAG_HASH_TREE
\* (mountpoint.rs:106-108, 114-122). The hashtree is appended only to an image
\* file of the length its metainfo gives (verity.rs:44-51). After a failed
\* write_header_to the flag is set in the header in memory and unset in the
\* file: which of the two a later has_flag sees depends on a reload
SvGen(w) ==
    /\ rpc[w] = "sv_gen"
    /\ LET f == RealmFSOf(w) IN
       IF img[f].hashtree
       THEN /\ rpc' = [rpc EXCEPT ![w] = "sv_setup"]
            /\ UNCHANGED <<img, oplog>>
       ELSE IF img[f].trees # 0
       THEN /\ rpc' = [rpc EXCEPT ![w] = "act_rmdir"]
            /\ oplog' = Logged(w, "generate_verity", FALSE)
            /\ UNCHANGED img
       ELSE \E out \in GenerateOutcomes, seen \in BOOLEAN :
            /\ out # "header not written" => seen = (out = "ok")
            /\ img' = [img EXCEPT ![f].hashtree = seen,
                                  ![f].trees = IF out = "not appended" THEN @ ELSE @ + 1]
            /\ rpc' = [rpc EXCEPT ![w] = IF out = "ok" THEN "sv_setup" ELSE "act_rmdir"]
            /\ oplog' = Logged(w, "generate_verity", out = "ok")
    /\ UNCHANGED <<mp, nosig, running, refs, serial, installVars, imageVars>>

\* Whether veritysetup open can succeed, can fail: a device of that name that
\* already exists makes it fail (verity.rs:107-112)
SetupOutcomes(f) == IF mp[f].verity THEN {FALSE} ELSE BOOLEAN

\* setup_verity: Verity::setup (mountpoint.rs:109-110, verity.rs:75-83)
SvSetup(w) ==
    /\ rpc[w] = "sv_setup"
    /\ \E ok \in SetupOutcomes(RealmFSOf(w)) :
        /\ mp' = IF ok THEN [mp EXCEPT ![RealmFSOf(w)].verity = TRUE] ELSE mp
        /\ rpc' = [rpc EXCEPT ![w] = IF ok THEN "act_mount" ELSE "act_rmdir"]
        /\ oplog' = Logged(w, "verity_setup", ok)
    /\ UNCHANGED <<img, nosig, running, refs, serial, installVars, imageVars>>

\* Whether rmdir of the mountpoint directory can succeed, can fail: a directory
\* something is mounted on is busy
RmdirOutcomes(f) == IF mp[f].mounts > 0 THEN {FALSE} ELSE BOOLEAN
\* Whether veritysetup close can succeed, can fail: a mounted device is busy
CloseOutcomes(f) == IF mp[f].mounts > 0 THEN {FALSE} ELSE BOOLEAN

\* setup_verity failed: let _ = fs::remove_dir(self.path()); return Err(err)
\* (mountpoint.rs:89-92)
ActRmdir(w) ==
    /\ rpc[w] = "act_rmdir"
    /\ \E ok \in RmdirOutcomes(RealmFSOf(w)) :
        /\ mp' = IF ok THEN [mp EXCEPT ![RealmFSOf(w)].dir = FALSE] ELSE mp
        /\ ActivateReturns(w, "err", Logged(w, "remove_dir", ok))
    /\ UNCHANGED <<img, nosig, running, refs, serial, installVars, imageVars>>

\* self.mount(verity_path) (mountpoint.rs:94-99, 73-77)
ActMount(w) ==
    /\ rpc[w] = "act_mount"
    /\ \E ok \in BOOLEAN :
        IF ok
        THEN /\ mp' = [mp EXCEPT ![RealmFSOf(w)].mounts = @ + 1]
             /\ ActivateReturns(w, "ok", Logged(w, "mount", TRUE))
        ELSE /\ UNCHANGED mp
             /\ rpc' = [rpc EXCEPT ![w] = "de_exists"]
             /\ oplog' = Logged(w, "mount", FALSE)
    /\ UNCHANGED <<img, nosig, running, refs, serial, installVars, imageVars>>

\* Mountpoint::deactivate has returned: inside activate the mount error is
\* returned (mountpoint.rs:95-96), otherwise RealmFS::deactivate is over
DeactivateReturns(w, log) ==
    IF oplog[w].op \in {"start", "activate"}
    THEN ActivateReturns(w, "err", log)
    ELSE Finish(w, "ok", log)

\* Mountpoint::deactivate: if !self.exists() return (mountpoint.rs:126-128)
DeExists(w) ==
    /\ rpc[w] = "de_exists"
    /\ IF exists(RealmFSOf(w))
       THEN /\ rpc' = [rpc EXCEPT ![w] = "de_umount"]
            /\ UNCHANGED oplog
       ELSE DeactivateReturns(w, oplog)
    /\ UNCHANGED <<mp, img, nosig, running, refs, serial, installVars, imageVars>>

\* 1. Unmount directory (mountpoint.rs:132-136): a failure is only logged
DeUmount(w) ==
    /\ rpc[w] = "de_umount"
    /\ rpc' = [rpc EXCEPT ![w] = "de_verity"]
    /\ IF is_mounted(RealmFSOf(w))
       THEN \E ok \in BOOLEAN :
            /\ mp' = IF ok THEN [mp EXCEPT ![RealmFSOf(w)].mounts = @ - 1] ELSE mp
            /\ oplog' = Logged(w, "umount", ok)
       ELSE UNCHANGED <<mp, oplog>>
    /\ UNCHANGED <<img, nosig, running, refs, serial, installVars, imageVars>>

\* Mutant of DeVerity: the dm-verity device is not closed
DeVerity_skipped(w) ==
    /\ rpc[w] = "de_verity"
    /\ rpc' = [rpc EXCEPT ![w] = "de_rmdir"]
    /\ UNCHANGED <<mp, img, nosig, running, refs, oplog, serial, installVars, imageVars>>

\* 2. Remove dm-verity device (mountpoint.rs:139-144): a failure is only logged
DeVerity(w) ==
    /\ rpc[w] = "de_verity"
    /\ rpc' = [rpc EXCEPT ![w] = "de_rmdir"]
    /\ IF verity_exists(RealmFSOf(w))
       THEN \E ok \in CloseOutcomes(RealmFSOf(w)) :
            /\ mp' = IF ok THEN [mp EXCEPT ![RealmFSOf(w)].verity = FALSE] ELSE mp
            /\ oplog' = Logged(w, "close_device", ok)
       ELSE UNCHANGED <<mp, oplog>>
    /\ UNCHANGED <<img, nosig, running, refs, serial, installVars, imageVars>>

\* 3. Remove directory (mountpoint.rs:147-149): a failure is only logged
DeRmdir(w) ==
    /\ rpc[w] = "de_rmdir"
    /\ \E ok \in RmdirOutcomes(RealmFSOf(w)) :
        /\ mp' = IF ok THEN [mp EXCEPT ![RealmFSOf(w)].dir = FALSE] ELSE mp
        /\ DeactivateReturns(w, Logged(w, "remove_dir", ok))
    /\ UNCHANGED <<img, nosig, running, refs, serial, installVars, imageVars>>

\* Mutant of RdInUse: deactivates without asking whether the RealmFS is in use
RdInUse_unchecked(w) ==
    /\ rpc[w] = "rd_inuse"
    /\ rpc' = [rpc EXCEPT ![w] = "de_exists"]
    /\ UNCHANGED <<mp, img, nosig, running, refs, oplog, serial, installVars, imageVars>>

\* RealmFS::deactivate (realmfs.rs:255-259): nothing is done while in use
RdInUse(w) ==
    /\ rpc[w] = "rd_inuse"
    /\ IF is_in_use(RealmFSOf(w))
       THEN Finish(w, "ok", oplog)
       ELSE /\ rpc' = [rpc EXCEPT ![w] = "de_exists"]
            /\ UNCHANGED oplog
    /\ UNCHANGED <<mp, img, nosig, running, refs, serial, installVars, imageVars>>

\* The manager, once the RealmFS of a starting realm is activated: the realm
\* runs and holds a reference on the mountpoint
StartRef(w) ==
    /\ rpc[w] = "start_ref"
    /\ running' = running \cup {w}
    /\ refs' = [refs EXCEPT ![RealmFSOf(w)] = @ + 1]
    /\ Finish(w, "ok", oplog)
    /\ UNCHANGED <<mp, img, nosig, serial, installVars, imageVars>>

\* The manager stopping a realm: the realm no longer runs, its reference is
\* dropped, and its RealmFS is deactivated
StopUnref(w) ==
    /\ rpc[w] = "stop_unref"
    /\ running' = running \ {w}
    /\ refs' = [refs EXCEPT ![RealmFSOf(w)] = @ - 1]
    /\ rpc' = [rpc EXCEPT ![w] = "rd_inuse"]
    /\ UNCHANGED <<mp, img, nosig, oplog, serial, installVars, imageVars>>

\* The caller has its result
Ack(w) ==
    /\ rpc[w] = "done"
    /\ rpc' = [rpc EXCEPT ![w] = "idle"]
    /\ oplog' = [oplog EXCEPT ![w] = NewLog("none")]
    /\ UNCHANGED <<mp, img, nosig, running, refs, serial, installVars, imageVars>>

RealmNext ==
    \E w \in Workers :
        \/ BeginStart(w)
        \/ BeginStop(w)
        \/ BeginActivate(w)
        \/ BeginDeactivate(w)
        \/ ActCheck(w)
        \/ ActMkdir(w)
        \/ ActVerity(w)
        \/ SvSig(w)
        \/ SvGen(w)
        \/ SvSetup(w)
        \/ ActRmdir(w)
        \/ ActMount(w)
        \/ DeExists(w)
        \/ DeUmount(w)
        \/ DeVerity(w)
        \/ DeRmdir(w)
        \/ RdInUse(w)
        \/ StartRef(w)
        \/ StopUnref(w)
        \/ Ack(w)

\* ------------------------------------------------- the per-image file lock

\* Processes and threads that call Update::create on one image
Contenders == {"u1", "u2"}

\* The lock files open_lockfile may create in a run
MaxLockFiles == 3

LockInit ==
    /\ lockfile = 0
    /\ created = 0
    /\ flocked = {}
    /\ upc = [c \in Contenders |-> "idle"]
    /\ ufd = [c \in Contenders |-> 0]
    /\ utries = [c \in Contenders |-> 0]
    /\ ures = [c \in Contenders |-> "none"]
    /\ keys = TRUE

\* The kernel keyring has the user keys or has not (realmfs.rs:367-373)
has_sealing_keys == keys

\* Update::create is called (update.rs:53-54): FileLock::nonblocking_acquire
\* begins with open_lockfile (lock.rs:24-25, 46-54)
CreateCall(c) ==
    /\ upc[c] = "idle"
    /\ upc' = [upc EXCEPT ![c] = "try_create"]
    /\ utries' = [utries EXCEPT ![c] = 0]
    /\ ures' = [ures EXCEPT ![c] = "none"]
    /\ UNCHANGED <<lockfile, created, flocked, ufd, keys, installVars, realmVars, updVars, forkVars, extVars>>

\* try_create_lockfile (lock.rs:65-71): create_new makes the file, or finds one
try_create_lockfile(c) ==
    /\ upc[c] = "try_create"
    /\ IF lockfile = 0
       THEN /\ created < MaxLockFiles
            /\ created' = created + 1
            /\ lockfile' = created + 1
            /\ ufd' = [ufd EXCEPT ![c] = created + 1]
            /\ upc' = [upc EXCEPT ![c] = "flock"]
       ELSE /\ upc' = [upc EXCEPT ![c] = "try_open"]
            /\ UNCHANGED <<lockfile, created, ufd>>
    /\ UNCHANGED <<flocked, utries, ures, keys, installVars, realmVars, updVars, forkVars, extVars>>

\* try_open_lockfile (lock.rs:73-79) and the loop of open_lockfile (lock.rs:54-62):
\* the file is opened, or it is gone and the loop goes round, three times at most
try_open_lockfile(c) ==
    /\ upc[c] = "try_open"
    /\ IF lockfile # 0
       THEN /\ ufd' = [ufd EXCEPT ![c] = lockfile]
            /\ upc' = [upc EXCEPT ![c] = "flock"]
            /\ UNCHANGED <<utries, ures>>
       ELSE /\ utries' = [utries EXCEPT ![c] = @ + 1]
            /\ IF utries[c] + 1 = 3
               THEN /\ upc' = [upc EXCEPT ![c] = "idle"]
                    /\ ures' = [ures EXCEPT ![c] = "unable to open lockfile"]
               ELSE /\ upc' = [upc EXCEPT ![c] = "try_create"]
                    /\ UNCHANGED ures
            /\ UNCHANGED ufd
    /\ UNCHANGED <<lockfile, created, flocked, keys, installVars, realmVars, updVars, forkVars, extVars>>

\* Some open file description holds the flock on file n
Locked(n) == \E l \in flocked : l.file = n

\* flock(LOCK_EX | LOCK_NB) (lock.rs:31-35, 86-103): the lock is taken, or it is
\* held (EWOULDBLOCK) and nonblocking_acquire returns None, which drops the
\* FileLock it had built; Update::create then fails (update.rs:54-55)
lock(c) ==
    /\ upc[c] = "flock"
    /\ IF Locked(ufd[c])
       THEN /\ upc' = [upc EXCEPT ![c] = "drop_remove"]
            /\ ures' = [ures EXCEPT ![c] = "Unable to obtain file lock"]
            /\ UNCHANGED flocked
       ELSE /\ flocked' = flocked \cup {[file |-> ufd[c], by |-> c]}
            /\ upc' = [upc EXCEPT ![c] = "keys"]
            /\ UNCHANGED ures
    /\ UNCHANGED <<lockfile, created, ufd, utries, keys, installVars, realmVars, updVars, forkVars, extVars>>

\* Update::create with the lock held (update.rs:57-61): without sealing keys it
\* fails and the lock is dropped, with them the Update exists
CreateReturns(c) ==
    /\ upc[c] = "keys"
    /\ IF has_sealing_keys
       THEN /\ upc' = [upc EXCEPT ![c] = "update"]
            /\ ures' = [ures EXCEPT ![c] = "ok"]
       ELSE /\ upc' = [upc EXCEPT ![c] = "drop_remove"]
            /\ ures' = [ures EXCEPT ![c] = "Cannot seal realmfs image"]
    /\ UNCHANGED <<lockfile, created, flocked, ufd, utries, keys, installVars, realmVars, updVars, forkVars, extVars>>

\* The Update is dropped (update.rs:351-355); its FileLock is dropped with it
DropUpdate(c) ==
    /\ upc[c] = "update"
    /\ upc' = [upc EXCEPT ![c] = "drop_remove"]
    /\ UNCHANGED <<lockfile, created, flocked, ufd, utries, ures, keys, installVars, realmVars, updVars, forkVars, extVars>>

\* Drop for FileLock, first half (lock.rs:112): the file at the lock path is
\* removed, whichever file that is; a failure is ignored
DropRemove(c) ==
    /\ upc[c] = "drop_remove"
    /\ \E ok \in BOOLEAN : lockfile' = IF ok THEN 0 ELSE lockfile
    /\ upc' = [upc EXCEPT ![c] = "drop_unlock"]
    /\ UNCHANGED <<created, flocked, ufd, utries, ures, keys, installVars, realmVars, updVars, forkVars, extVars>>

\* Drop for FileLock, second half (lock.rs:113): unlock, and the file is closed
unlock(c) ==
    /\ upc[c] = "drop_unlock"
    /\ flocked' = flocked \ {[file |-> ufd[c], by |-> c]}
    /\ ufd' = [ufd EXCEPT ![c] = 0]
    /\ upc' = [upc EXCEPT ![c] = "idle"]
    /\ UNCHANGED <<lockfile, created, utries, ures, keys, installVars, realmVars, updVars, forkVars, extVars>>

\* The user keys are added to or removed from the keyring between calls
KeyringChanges ==
    /\ \A c \in Contenders : upc[c] \in {"idle", "update"}
    /\ keys' = ~keys
    /\ UNCHANGED <<lockfile, created, flocked, upc, ufd, utries, ures, installVars, realmVars, updVars, forkVars, extVars>>

LockNext ==
    \/ \E c \in Contenders :
        \/ CreateCall(c)
        \/ try_create_lockfile(c)
        \/ try_open_lockfile(c)
        \/ lock(c)
        \/ CreateReturns(c)
        \/ DropUpdate(c)
        \/ DropRemove(c)
        \/ unlock(c)
    \/ KeyringChanges


\* ------------------------------------------------- Update of a RealmFS image

\* The maximum number of backup copies rotate keeps (update.rs:17)
NUM_BACKUPS == 2

\* Updates of the image made one after the other
MaxUpdates == 3

\* Paths: the image, its backups .img.0 and .img.1, and the update copy
ImagePaths == {"current", "backup0", "backup1"}
NoFiles == [current |-> 0, backup0 |-> 0, backup1 |-> 0, target |-> 0]

UpdInit ==
    /\ files = [NoFiles EXCEPT !.current = 1]
    /\ mdir = FALSE
    /\ umounts = 0
    /\ addr = FALSE
    /\ network_allocated = FALSE
    /\ ust = "none"
    /\ cret = "none"
    /\ uret = "none"
    /\ nupd = 0
    /\ ulog = << >>
    /\ pre = NoFiles
    /\ rpre = NoFiles


Did(name, ok) == Append(ulog, [name |-> name, ok |-> ok])

UpdFrame == UNCHANGED <<lockVars, forkVars, extVars, installVars, realmVars>>

\* RealmFS::interactive_update (realmfs.rs:261-264): Update::create returns an
\* Update (update.rs:53-62, 35-51), run_interactive_update checks for root
\* (update.rs:273-275); the image is one that loads
interactive_update ==
    /\ ust \in {"none", "finished"}
    /\ nupd < MaxUpdates
    /\ files.current # 0
    /\ has_sealing_keys
    /\ nupd' = nupd + 1
    /\ network_allocated' = FALSE
    /\ ulog' = << >>
    /\ pre' = files
    /\ \E root \in BOOLEAN : ust' = IF root THEN "create_update_copy" ELSE "drop"
    /\ UNCHANGED <<files, mdir, umounts, addr, cret, uret, rpre>>
    /\ UpdFrame

\* create_update_copy (update.rs:72-82, 327-333 of realmfs.rs): a leftover update
\* file is removed, the image is copied; a cp that fails may leave a file behind
create_update_copy ==
    /\ ust = "create_update_copy"
    /\ \E removed \in BOOLEAN, copied \in BOOLEAN, partial \in BOOLEAN :
        IF files.target # 0 /\ ~removed
        THEN /\ ust' = "drop"
             /\ ulog' = Did("remove stale copy", FALSE)
             /\ UNCHANGED files
        ELSE /\ files' = [files EXCEPT !.target = IF copied \/ partial THEN nupd + 1 ELSE 0]
             /\ ust' = IF copied THEN "truncate_verity" ELSE "drop"
             /\ ulog' = Did("cp", copied)
    /\ UNCHANGED <<mdir, umounts, addr, network_allocated, cret, uret, nupd, pre, rpre>>
    /\ UpdFrame

\* truncate_verity and resize_image_file on the copy (update.rs:79-80, 86-87,
\* 174-201)
truncate_verity ==
    /\ ust = "truncate_verity"
    /\ \E ok \in BOOLEAN :
        /\ ust' = IF ok THEN "mount_update_image" ELSE "drop"
        /\ ulog' = Did("truncate_verity", ok)
    /\ UNCHANGED <<files, mdir, umounts, addr, network_allocated, cret, uret, nupd, pre, rpre>>
    /\ UpdFrame

\* mount_update_image (update.rs:106-117): loop device, mount directory, mount
mount_update_image ==
    /\ ust = "mount_update_image"
    /\ \E out \in {"loop failed", "create_dir failed", "mount failed", "ok"} :
        /\ out = "create_dir failed" => ~mdir
        /\ mdir' = IF out = "loop failed" \/ out = "create_dir failed" THEN mdir ELSE TRUE
        /\ umounts' = IF out = "ok" THEN umounts + 1 ELSE umounts
        /\ ust' = IF out = "ok" THEN "run_update_shell" ELSE "drop"
        /\ ulog' = Did("mount", out = "ok")
    /\ UNCHANGED <<files, addr, network_allocated, cret, uret, nupd, pre, rpre>>
    /\ UpdFrame

\* run_update_shell (update.rs:303-325): an address is allocated, then
\* systemd-nspawn runs; if it cannot be started cleanup runs before the error
\* is returned
run_update_shell ==
    /\ ust = "run_update_shell"
    /\ \E out \in {"no address", "spawn failed", "ok"} :
        IF out = "no address"
        THEN /\ ust' = "drop"
             /\ ulog' = Did("allocate_address_for", FALSE)
             /\ UNCHANGED <<addr, network_allocated, cret>>
        ELSE /\ addr' = TRUE
             /\ network_allocated' = TRUE
             /\ ulog' = Did("allocate_address_for", TRUE) \o << [name |-> "systemd-nspawn", ok |-> out = "ok"] >>
             /\ IF out = "ok"
                THEN ust' = "prompt_user" /\ UNCHANGED cret
                ELSE ust' = "cleanup" /\ cret' = "drop"
    /\ UNCHANGED <<files, mdir, umounts, uret, nupd, pre, rpre>>
    /\ UpdFrame

\* prompt_user("Apply changes?") and what run_interactive_update does with the
\* answer (update.rs:292-298, 258-270)
prompt_user ==
    /\ ust = "prompt_user"
    /\ \E answer \in {"yes", "no", "error"} :
        /\ ulog' = Did(IF answer = "yes" THEN "apply" ELSE "do not apply", answer # "error")
        /\ ust' = CASE answer = "yes" -> "unmount_update_image"
                    [] answer = "no" -> "cleanup"
                    [] OTHER -> "drop"
        /\ uret' = IF answer = "yes" THEN "seal" ELSE uret
        /\ cret' = IF answer = "no" THEN "drop" ELSE cret
    /\ UNCHANGED <<files, mdir, umounts, addr, network_allocated, nupd, pre, rpre>>
    /\ UpdFrame

\* unmount_update_image (update.rs:125-135), the umount: a failure is only logged
unmount_update_image ==
    /\ ust = "unmount_update_image"
    /\ IF ~mdir
       THEN /\ ust' = uret
            /\ UNCHANGED <<umounts, ulog>>
       ELSE /\ ust' = "remove_dir"
            /\ \E ok \in (IF umounts > 0 THEN BOOLEAN ELSE {FALSE}) :
                /\ umounts' = IF ok THEN umounts - 1 ELSE umounts
                /\ ulog' = Did(IF umounts > 0 THEN "umount" ELSE "umount of nothing", ok)
    /\ UNCHANGED <<files, mdir, addr, network_allocated, cret, uret, nupd, pre, rpre>>
    /\ UpdFrame

\* unmount_update_image, the remove_dir (update.rs:131-133): a directory
\* something is mounted on is busy; a failure is only logged
remove_mountpath ==
    /\ ust = "remove_dir"
    /\ \E ok \in (IF umounts > 0 THEN {FALSE} ELSE BOOLEAN) :
        /\ mdir' = IF ok THEN FALSE ELSE mdir
        /\ ulog' = Did("remove_dir", ok)
    /\ ust' = uret
    /\ UNCHANGED <<files, umounts, addr, network_allocated, cret, uret, nupd, pre, rpre>>
    /\ UpdFrame

\* seal (update.rs:225-247): the verity hashtree of the copy is generated with a
\* fresh salt
seal_hashtree ==
    /\ ust = "seal"
    /\ \E ok \in BOOLEAN :
        /\ ulog' = Did("generate_image_hashtree_with_salt", ok)
        /\ IF ok THEN ust' = "seal_sign" /\ UNCHANGED cret
                 ELSE ust' = "cleanup" /\ cret' = "drop"
    /\ UNCHANGED <<files, mdir, umounts, addr, network_allocated, uret, nupd, pre, rpre>>
    /\ UpdFrame

\* seal (update.rs:248-254): the new metainfo is signed and written to the copy
seal_sign ==
    /\ ust = "seal_sign"
    /\ \E ok \in BOOLEAN :
        /\ ulog' = Did("update_metainfo", ok)
        /\ IF ok THEN ust' = "rotate" /\ UNCHANGED cret
                 ELSE ust' = "cleanup" /\ cret' = "drop"
    /\ UNCHANGED <<files, mdir, umounts, addr, network_allocated, uret, nupd, pre, rpre>>
    /\ UpdFrame

\* Mutant of rename: the file is unlinked at from and does not appear at to
rename_unlinks(fs, from, to) == [fs EXCEPT ![from] = 0]

\* fs::rename(from, to): to is replaced by from
rename(fs, from, to) == [fs EXCEPT ![to] = fs[from], ![from] = 0]

\* Mutant of rotate_backups: the loop over the backups is empty
rotate_backups_skipped ==
    /\ ust = "rotate"
    /\ rpre' = files
    /\ ust' = "rotate_current"
    /\ UNCHANGED <<files, ulog, cret, mdir, umounts, addr, network_allocated, uret, nupd, pre>>
    /\ UpdFrame

\* rotate (update.rs:339-344): for i in (1..NUM_BACKUPS).rev(), which is i = 1:
\* backup(0), if it exists, is renamed to backup(1)
rotate_backups ==
    /\ ust = "rotate"
    /\ rpre' = files
    /\ IF files.backup0 # 0
       THEN \E ok \in BOOLEAN :
            /\ files' = IF ok THEN rename(files, "backup0", "backup1") ELSE files
            /\ ulog' = Did("rename backup0 backup1", ok)
            /\ IF ok THEN ust' = "rotate_current" /\ UNCHANGED cret
                     ELSE ust' = "cleanup" /\ cret' = "drop"
       ELSE /\ ust' = "rotate_current"
            /\ UNCHANGED <<files, ulog, cret>>
    /\ UNCHANGED <<mdir, umounts, addr, network_allocated, uret, nupd, pre>>
    /\ UpdFrame

\* rotate (update.rs:345): the image is renamed to backup(0)
rotate_current ==
    /\ ust = "rotate_current"
    /\ \E ok \in BOOLEAN :
        /\ files' = IF ok THEN rename(files, "current", "backup0") ELSE files
        /\ ulog' = Did("rename current backup0", ok)
        /\ IF ok THEN ust' = "rotate_target" /\ UNCHANGED cret
                 ELSE ust' = "cleanup" /\ cret' = "drop"
    /\ UNCHANGED <<mdir, umounts, addr, network_allocated, uret, nupd, pre, rpre>>
    /\ UpdFrame

\* rotate (update.rs:346-347): the update copy is renamed to the image path
rotate_target ==
    /\ ust = "rotate_target"
    /\ \E ok \in BOOLEAN :
        /\ files' = IF ok THEN rename(files, "target", "current") ELSE files
        /\ ulog' = Did("rename target current", ok)
        /\ IF ok THEN ust' = "applied" /\ UNCHANGED cret
                 ELSE ust' = "cleanup" /\ cret' = "drop"
    /\ UNCHANGED <<mdir, umounts, addr, network_allocated, uret, nupd, pre, rpre>>
    /\ UpdFrame

\* apply_update has returned Ok (update.rs:293-298): cleanup is next
applied ==
    /\ ust = "applied"
    /\ ust' = "cleanup"
    /\ cret' = "drop"
    /\ UNCHANGED <<files, mdir, umounts, addr, network_allocated, uret, nupd, ulog, pre, rpre>>
    /\ UpdFrame

\* cleanup (update.rs:203-206): the mount directory
cleanup ==
    /\ ust = "cleanup"
    /\ ust' = IF mdir THEN "unmount_update_image" ELSE "cleanup_copy"
    /\ uret' = IF mdir THEN "cleanup_copy" ELSE uret
    /\ ulog' = Did("cleanup", TRUE)
    /\ UNCHANGED <<files, mdir, umounts, addr, network_allocated, cret, nupd, pre, rpre>>
    /\ UpdFrame

\* Mutant of cleanup_copy: the update copy is left where it is
cleanup_copy_skipped ==
    /\ ust = "cleanup_copy"
    /\ ust' = "cleanup_network"
    /\ UNCHANGED <<files, ulog, mdir, umounts, addr, network_allocated, cret, uret, nupd, pre, rpre>>
    /\ UpdFrame

\* cleanup (update.rs:208-212): the update copy is removed; a failure is only
\* logged
cleanup_copy ==
    /\ ust = "cleanup_copy"
    /\ IF files.target # 0
       THEN \E ok \in BOOLEAN :
            /\ files' = IF ok THEN [files EXCEPT !.target = 0] ELSE files
            /\ ulog' = Did("remove_file", ok)
       ELSE UNCHANGED <<files, ulog>>
    /\ ust' = "cleanup_network"
    /\ UNCHANGED <<mdir, umounts, addr, network_allocated, cret, uret, nupd, pre, rpre>>
    /\ UpdFrame

\* cleanup (update.rs:214-222): the address is freed; a failure is only logged
cleanup_network ==
    /\ ust = "cleanup_network"
    /\ IF network_allocated
       THEN \E ok \in BOOLEAN :
            /\ addr' = IF ok THEN FALSE ELSE addr
            /\ ulog' = Did("free_allocation_for", ok)
       ELSE UNCHANGED <<addr, ulog>>
    /\ network_allocated' = FALSE
    /\ ust' = cret
    /\ UNCHANGED <<files, mdir, umounts, cret, uret, nupd, pre, rpre>>
    /\ UpdFrame

\* Drop for Update (update.rs:351-355): cleanup, and the Update is gone
drop ==
    /\ ust = "drop"
    /\ ust' = "cleanup"
    /\ cret' = "finished"
    /\ ulog' = Did("drop", TRUE)
    /\ UNCHANGED <<files, mdir, umounts, addr, network_allocated, uret, nupd, pre, rpre>>
    /\ UpdFrame

UpdateNext ==
    \/ interactive_update
    \/ create_update_copy
    \/ truncate_verity
    \/ mount_update_image
    \/ run_update_shell
    \/ prompt_user
    \/ unmount_update_image
    \/ remove_mountpath
    \/ seal_hashtree
    \/ seal_sign
    \/ rotate_backups
    \/ rotate_current
    \/ rotate_target
    \/ applied
    \/ cleanup
    \/ cleanup_copy
    \/ cleanup_network
    \/ drop

\* ------------------------------------------------------------ RealmFS::fork

\* Maximum length of a RealmFS name (realmfs.rs:14)
MAX_REALMFS_NAME_LEN == 40
\* Name of the user key in the kernel keyring, and the channel of a user image
\* (realmfs.rs:58)
USER_KEYNAME == "realmfs-user"

\* Names are sequences of characters. Characters of the model, with their code
\* points: ASCII letters, an ASCII digit, dash and underscore, and a letter and
\* a digit outside ASCII
CodePoint ==
    [c \in {"a", "b", "e", "f", "l", "m", "n", "r", "s", "t", "w", "x", "Z", "9", "-", "_", "U+00E9", "U+0663"} |->
        CASE c = "Z" -> 90
          [] c = "9" -> 57
          [] c = "-" -> 45
          [] c = "_" -> 95
          [] c = "U+00E9" -> 233
          [] c = "U+0663" -> 1635
          [] c = "a" -> 97
          [] c = "b" -> 98
          [] c = "e" -> 101
          [] c = "f" -> 102
          [] c = "m" -> 109
          [] c = "r" -> 114
          [] c = "l" -> 108
          [] c = "n" -> 110
          [] c = "s" -> 115
          [] c = "t" -> 116
          [] c = "w" -> 119
          [] c = "x" -> 120]
\* char::is_alphabetic, char::is_numeric
Alphabetic == {"a", "b", "e", "f", "l", "m", "n", "r", "s", "t", "w", "x", "Z", "U+00E9"}
Numeric == {"9", "U+0663"}
\* util::is_ascii (util.rs:27-29)
is_ascii(c) == CodePoint[c] <= 127
\* str::len: the bytes of the UTF-8 encoding, two for the characters of the
\* model that are not ASCII
str_len(n) == Len(n) + Cardinality({k \in 1..Len(n) : ~is_ascii(n[k])})
\* util::is_alphanum_or_dash (util.rs:23-25)
is_alphanum_or_dash(c) == is_ascii(c) /\ (c \in Alphabetic \cup Numeric \/ c = "-")
\* util::is_first_char_alphabetic (util.rs:31-36)
is_first_char_alphabetic(n) == Len(n) > 0 /\ is_ascii(n[1]) /\ n[1] \in Alphabetic

\* Mutant of is_valid_name: the first character is not looked at on its own
is_valid_name_anyFirst(n, maxsize) ==
    /\ str_len(n) <= maxsize
    /\ \A k \in 1..Len(n) : is_alphanum_or_dash(n[k])

\* util::is_valid_name (util.rs:16-21)
is_valid_name(n, maxsize) ==
    /\ str_len(n) <= maxsize
    /\ is_first_char_alphabetic(n)
    /\ \A k \in 1..Len(n) : is_alphanum_or_dash(n[k])

BaseName == <<"b", "a", "s", "e">>
\* Names fork is called with: valid ones, and ones that start with a digit, hold
\* an underscore, are empty, are one character too long
ImageNames == {BaseName, <<"n", "e", "w">>, <<"a", "l", "t">>}
BadNames == {<<"9", "x">>, <<"a", "_", "b">>, << >>, [k \in 1..(MAX_REALMFS_NAME_LEN + 1) |-> "a"]}
NewNames == ImageNames \cup BadNames

Forkers == {"f1", "f2"}

Line(key, value) == [key |-> key, value |-> value]

\* RealmFS::generate_metainfo (realmfs.rs:341-350)
generate_metainfo(name, nblocks, verity_salt, verity_root) ==
    << Line("image-type", "realmfs"),
       Line("realmfs-name", name),
       Line("nblocks", nblocks),
       Line("channel", USER_KEYNAME),
       Line("verity-salt", verity_salt),
       Line("verity-root", verity_root) >>

MetaInfoFields == {"image-type", "realmfs-name", "nblocks", "channel", "verity-salt", "verity-root"}

\* The metainfo read back from the bytes of an image header: each field is the
\* value of its line
MetaInfo(bytes) ==
    [f \in MetaInfoFields |-> bytes[CHOOSE k \in 1..Len(bytes) : bytes[k].key = f].value]

NoImage == [bytes |-> << >>, sig |-> "none", whole |-> FALSE, by |-> "none"]

\* The image the system ships: signed with the keys of its channel
BaseImage ==
    [bytes |-> << Line("image-type", "realmfs"), Line("realmfs-name", BaseName),
                  Line("nblocks", 2048), Line("channel", "dev"),
                  Line("verity-salt", "salt-of-base"), Line("verity-root", "root-of-base") >>,
     sig |-> "dev", whole |-> TRUE, by |-> "install"]

ForkInit ==
    /\ images = [n \in ImageNames |-> IF n = BaseName THEN BaseImage ELSE NoImage]
    /\ fpc = [f \in Forkers |-> "idle"]
    /\ fname = [f \in Forkers |-> << >>]
    /\ fsrc = [f \in Forkers |-> << >>]
    /\ fres = [f \in Forkers |-> "none"]
    /\ fsnap = [f \in Forkers |-> [n \in ImageNames |-> NoImage]]


ForkFrame == UNCHANGED <<lockfile, created, flocked, upc, ufd, utries, ures, updVars, extVars, installVars, realmVars>>

\* new_path.exists() (realmfs.rs:292, 306, 328)
path_exists(n) == images[n] # NoImage

\* RealmFS::is_valid_realmfs_image, load_realmfs_header (realmfs.rs:111-129)
Loadable(n) == path_exists(n) /\ images[n].whole

\* RealmFS::fork up to the call of fork_to_path (realmfs.rs:289-301): the name
\* is validated, the new path must not exist, the user keys must be there
fork(f) ==
    /\ fpc[f] = "idle"
    /\ Cardinality({g \in Forkers : fpc[g] # "idle"}) < (IF serial THEN 1 ELSE MaxConcurrent)
    /\ \E src \in {n \in ImageNames : Loadable(n)}, new \in NewNames :
        /\ fsrc' = [fsrc EXCEPT ![f] = src]
        /\ fname' = [fname EXCEPT ![f] = new]
        /\ fsnap' = [fsnap EXCEPT ![f] = images]
        /\ IF ~is_valid_name(new, MAX_REALMFS_NAME_LEN)
           THEN fpc' = [fpc EXCEPT ![f] = "done"] /\ fres' = [fres EXCEPT ![f] = "Invalid realm name"]
           ELSE IF path_exists(new)
           THEN fpc' = [fpc EXCEPT ![f] = "done"] /\ fres' = [fres EXCEPT ![f] = "already exists"]
           ELSE IF ~has_sealing_keys
           THEN fpc' = [fpc EXCEPT ![f] = "done"] /\ fres' = [fres EXCEPT ![f] = "no signing keys available"]
           ELSE fpc' = [fpc EXCEPT ![f] = "copy"] /\ fres' = [fres EXCEPT ![f] = "none"]
    /\ UNCHANGED <<images, keys>>
    /\ ForkFrame

\* fork_to_path: copy_image_file (realmfs.rs:319, 327-333); a cp that fails may
\* leave a partial file
copy_image_file(f) ==
    /\ fpc[f] = "copy"
    /\ IF path_exists(fname[f])
       THEN /\ fpc' = [fpc EXCEPT ![f] = "failed"]
            /\ UNCHANGED images
       ELSE \E out \in (IF Loadable(fsrc[f]) THEN {"ok", "partial", "nothing"} ELSE {"nothing"}) :
            /\ images' = IF out = "nothing" THEN images
                         ELSE [images EXCEPT ![fname[f]] =
                                 [images[fsrc[f]] EXCEPT !.whole = (out = "ok"), !.by = f]]
            /\ fpc' = [fpc EXCEPT ![f] = IF out = "ok" THEN "load" ELSE "failed"]
    /\ UNCHANGED <<fname, fsrc, fres, fsnap, keys>>
    /\ ForkFrame

\* fork_to_path: the copy is loaded (realmfs.rs:320-322)
load_from_path(f) ==
    /\ fpc[f] = "load"
    /\ \E ok \in (IF Loadable(fname[f]) THEN BOOLEAN ELSE {FALSE}) :
        fpc' = [fpc EXCEPT ![f] = IF ok THEN "update_metainfo" ELSE "failed"]
    /\ UNCHANGED <<images, fname, fsrc, fres, fsnap, keys>>
    /\ ForkFrame

\* fork_metainfo handing the hash tree's root where the salt belongs and the
\* salt where the root belongs
fork_metainfo_swapped(source, new_name) ==
    generate_metainfo(new_name, MetaInfo(source.bytes)["nblocks"],
                      MetaInfo(source.bytes)["verity-root"], MetaInfo(source.bytes)["verity-salt"])

\* RealmFS::fork_metainfo (realmfs.rs:335-339): of the source's metainfo only
\* the name changes
fork_metainfo(source, new_name) ==
    generate_metainfo(new_name, MetaInfo(source.bytes)["nblocks"],
                      MetaInfo(source.bytes)["verity-salt"], MetaInfo(source.bytes)["verity-root"])

\* fork_to_path: the metainfo signed with the user keys is written to the
\* file at the new path (realmfs.rs:321-324); fork then returns the new RealmFS
\* (realmfs.rs:313-314)
update_metainfo(f) ==
    /\ fpc[f] = "update_metainfo"
    /\ \E ok \in (IF path_exists(fname[f]) THEN BOOLEAN ELSE {FALSE}) :
        /\ images' = IF ok
                     THEN [images EXCEPT ![fname[f]].bytes = fork_metainfo(fsnap[f][fsrc[f]], fname[f]),
                                         ![fname[f]].sig = USER_KEYNAME]
                     ELSE images
        /\ fpc' = [fpc EXCEPT ![f] = IF ok THEN "done" ELSE "failed"]
        /\ fres' = [fres EXCEPT ![f] = IF ok THEN "ok" ELSE "none"]
    /\ UNCHANGED <<fname, fsrc, fsnap, keys>>
    /\ ForkFrame

\* fork_to_path returned an error (realmfs.rs:305-310): the file at the new
\* path, if there is one, is removed, a failure to remove it is ignored
fork_failed(f) ==
    /\ fpc[f] = "failed"
    /\ IF path_exists(fname[f])
       THEN \E ok \in BOOLEAN :
            images' = IF ok THEN [images EXCEPT ![fname[f]] = NoImage] ELSE images
       ELSE UNCHANGED images
    /\ fpc' = [fpc EXCEPT ![f] = "done"]
    /\ fres' = [fres EXCEPT ![f] = "Failed to fork RealmFS"]
    /\ UNCHANGED <<fname, fsrc, fsnap, keys>>
    /\ ForkFrame

\* The caller has the result of fork
ForkReturns(f) ==
    /\ fpc[f] = "done"
    /\ fpc' = [fpc EXCEPT ![f] = "idle"]
    /\ fres' = [fres EXCEPT ![f] = "none"]
    /\ fname' = [fname EXCEPT ![f] = << >>]
    /\ fsrc' = [fsrc EXCEPT ![f] = << >>]
    /\ fsnap' = [fsnap EXCEPT ![f] = [n \in ImageNames |-> NoImage]]
    /\ UNCHANGED <<images, keys>>
    /\ ForkFrame

\* The user keys are added to or removed from the keyring between calls
ForkKeyringChanges ==
    /\ \A f \in Forkers : fpc[f] = "idle"
    /\ keys' = ~keys
    /\ UNCHANGED <<images, fpc, fname, fsrc, fres, fsnap>>
    /\ ForkFrame

ForkNext ==
    \/ \E f \in Forkers :
        \/ fork(f)
        \/ copy_image_file(f)
        \/ load_from_path(f)
        \/ update_metainfo(f)
        \/ fork_failed(f)
        \/ ForkReturns(f)
    \/ ForkKeyringChanges

\* ------------------------------------- RealmFS::load_by_name, load_from_path

\* Files a load can find at the path: the header's magic, the image-type,
\* realmfs-name and channel of its metainfo, and the key its signature was
\* made with ("none": the signature is of no key)
NoHeader == [magic |-> FALSE, image_type |-> "none", realmfs_name |-> <<"none">>,
             channel |-> "none", signed |-> "none"]
Headers ==
    [magic : BOOLEAN, image_type : {"realmfs", "rootfs"},
     realmfs_name : {<<"none">>, BaseName, <<"9", "x">>},
     channel : {"dev", USER_KEYNAME}, signed : {"dev", USER_KEYNAME, "none"}]

\* What is not of the load: it leaves all of it as it is
LoadFrame == UNCHANGED <<lockfile, created, flocked, upc, ufd, utries, ures, updVars, forkVars, installVars, realmVars, uiVars, nameVars, ovVars, cdVars, rzVars, pgVars, pfVars, stVars>>

LoadInit ==
    /\ lpc = "idle"
    /\ larg = << >>
    /\ lfile = NoHeader
    /\ lres = "none"


\* RealmFS::validate_name (realmfs.rs:132-137)
validate_name(name) == is_valid_name(name, MAX_REALMFS_NAME_LEN)

\* RealmFS::load_by_name (realmfs.rs:61-69): the name must be valid and a file
\* must be at its image path
load_by_name ==
    /\ lpc = "idle"
    /\ \E name \in NewNames, file \in Headers \cup {NoHeader} :
        /\ larg' = name
        /\ lfile' = file
        /\ IF ~validate_name(name)
           THEN lpc' = "done" /\ lres' = "Invalid realm name"
           ELSE IF file = NoHeader
           THEN lpc' = "done" /\ lres' = "No image found"
           ELSE lpc' = "from_file" /\ lres' = "none"
    /\ UNCHANGED keys
    /\ LoadFrame

\* RealmFS::load_from_path (realmfs.rs:72-82) called with a path
load_path ==
    /\ lpc = "idle"
    /\ \E file \in Headers \cup {NoHeader} :
        /\ larg' = <<"path">>
        /\ lfile' = file
        /\ lpc' = "from_file"
        /\ lres' = "none"
    /\ UNCHANGED keys
    /\ LoadFrame

\* load_realmfs_header: ImageHeader::from_file(path)? (realmfs.rs:116)
from_file ==
    /\ lpc = "from_file"
    /\ \E ok \in (IF lfile = NoHeader THEN {FALSE} ELSE BOOLEAN) :
        /\ lpc' = IF ok THEN "header" ELSE "done"
        /\ lres' = IF ok THEN "none" ELSE "failed to read header"
    /\ UNCHANGED <<larg, lfile, keys>>
    /\ LoadFrame

\* What load_realmfs_header answers for a header that was read
\* (realmfs.rs:117-128)
load_realmfs_header(h) ==
    IF ~h.magic THEN "does not have a valid header"
    ELSE IF h.image_type # "realmfs" THEN "is not a realmfs image"
    ELSE IF h.realmfs_name = <<"none">> THEN "does not have a 'realmfs-name' field"
    ELSE IF ~validate_name(h.realmfs_name) THEN "Invalid realm name"
    ELSE "ok"

\* load_realmfs_header looks at the header; load_from_path makes the RealmFS of
\* a header that passes (realmfs.rs:73-81, 117-128)
check_header ==
    /\ lpc = "header"
    /\ lpc' = "done"
    /\ lres' = load_realmfs_header(lfile)
    /\ UNCHANGED <<larg, lfile, keys>>
    /\ LoadFrame

\* The caller has the result of the load
LoadReturns ==
    /\ lpc = "done"
    /\ lpc' = "idle"
    /\ larg' = << >>
    /\ lfile' = NoHeader
    /\ lres' = "none"
    /\ UNCHANGED keys
    /\ LoadFrame

\* The user keys are added to or removed from the keyring between loads
LoadKeyringChanges ==
    /\ lpc = "idle"
    /\ keys' = ~keys
    /\ UNCHANGED loadVars
    /\ LoadFrame

\* RealmFS::public_key (realmfs.rs:267-277): the user key of the keyring for an
\* image of the user channel, else the key of the image's channel
public_key(h) ==
    IF h.channel = USER_KEYNAME
    THEN (IF has_sealing_keys THEN USER_KEYNAME ELSE "error")
    ELSE h.channel

\* RealmFS::verify_signature (realmfs.rs:279-286)
verify_signature(h) == public_key(h) # "error" /\ h.signed = public_key(h)

LoadNext ==
    \/ load_by_name
    \/ load_path
    \/ from_file
    \/ check_header
    \/ LoadReturns
    \/ LoadKeyringChanges

\* ------------------------------------------ citadel-realms-ui: single instance

\* Processes of citadel-realms-ui that are launched
Instances == {"a", "b", "c"}

\* listen(fd, 1) (instance.rs:79)
LISTEN_BACKLOG == 1

UiFrame == UNCHANGED <<installVars, realmVars, lockVars, updVars, forkVars, loadVars, nameVars, ovVars, cdVars, rzVars, pgVars, pfVars, stVars>>

UiInit ==
    /\ holder = "none"
    /\ listening = FALSE
    /\ backlog = 0
    /\ ipc = [i \in Instances |-> "off"]
    /\ tog = [i \in Instances |-> FALSE]
    /\ bres = [i \in Instances |-> "none"]
    /\ iret = [i \in Instances |-> "none"]
    /\ conn = [i \in Instances |-> FALSE]
    /\ rd = [i \in Instances |-> "none"]
    /\ quitq = [i \in Instances |-> FALSE]


\* A process is launched: InstanceTracker::create makes its socket and bind is
\* called (main.rs:18-25, instance.rs:43-47)
create(i) ==
    /\ ipc[i] = "off"
    /\ \E toggle \in BOOLEAN : tog' = [tog EXCEPT ![i] = toggle]
    /\ ipc' = [ipc EXCEPT ![i] = "try_bind"]
    /\ UNCHANGED <<holder, listening, backlog, bres, iret, conn, rd, quitq>>
    /\ UiFrame

\* InstanceTracker::try_bind (instance.rs:54-61): bind(2) answers EADDRINUSE
\* while a socket is bound to the name, and can fail for another reason
try_bind(i) ==
    /\ ipc[i] = "try_bind"
    /\ \E r \in (IF holder # "none" THEN {"BindAddrInUse"} ELSE {"BindOk", "BindFailed"}) :
        /\ bres' = [bres EXCEPT ![i] = r]
        /\ holder' = IF r = "BindOk" THEN i ELSE holder
    /\ ipc' = [ipc EXCEPT ![i] = "bind"]
    /\ UNCHANGED <<listening, backlog, tog, iret, conn, rd, quitq>>
    /\ UiFrame

\* Mutant of bind: true is returned whatever try_bind answered
bind_alwaysShown(i) ==
    /\ ipc[i] = "bind"
    /\ ipc' = [ipc EXCEPT ![i] = "main"]
    /\ iret' = [iret EXCEPT ![i] = "true"]
    /\ UNCHANGED <<holder, listening, backlog, tog, bres, conn, rd, quitq>>
    /\ UiFrame

\* InstanceTracker::bind (instance.rs:89-107): the match on what try_bind
\* returned. With true the process goes on to its main loop (main.rs:25-39)
bind(i) ==
    /\ ipc[i] = "bind"
    /\ IF bres[i] = "BindOk"
       THEN /\ rd' = [rd EXCEPT ![i] = "listen"]
            /\ iret' = [iret EXCEPT ![i] = "true"]
            /\ ipc' = [ipc EXCEPT ![i] = "main"]
       ELSE IF bres[i] = "BindAddrInUse" /\ tog[i]
       THEN /\ ipc' = [ipc EXCEPT ![i] = "connect"]
            /\ UNCHANGED <<rd, iret>>
       ELSE /\ iret' = [iret EXCEPT ![i] = "false"]
            /\ ipc' = [ipc EXCEPT ![i] = "exit"]
            /\ UNCHANGED rd
    /\ UNCHANGED <<holder, listening, backlog, tog, bres, conn, quitq>>
    /\ UiFrame

\* InstanceTracker::connect (instance.rs:63-73), then bind returns false
\* (instance.rs:92-95). connect(2) is refused when no socket bound to the name
\* listens, and waits while the backlog of the listening socket is full
connect(i) ==
    /\ ipc[i] = "connect"
    /\ (holder # "none" /\ listening) => backlog < LISTEN_BACKLOG
    /\ IF holder # "none" /\ listening
       THEN /\ backlog' = backlog + 1
            /\ conn' = [conn EXCEPT ![i] = TRUE]
       ELSE UNCHANGED <<backlog, conn>>
    /\ iret' = [iret EXCEPT ![i] = "false"]
    /\ ipc' = [ipc EXCEPT ![i] = "exit"]
    /\ UNCHANGED <<holder, listening, tog, bres, rd, quitq>>
    /\ UiFrame

\* The reader thread: let _ = listen(fd, 1) (instance.rs:79)
reader_listen(i) ==
    /\ rd[i] = "listen"
    /\ \E ok \in BOOLEAN : listening' = (listening \/ ok)
    /\ rd' = [rd EXCEPT ![i] = "accept"]
    /\ UNCHANGED <<holder, backlog, ipc, tog, bres, iret, conn, quitq>>
    /\ UiFrame

\* The reader thread: let _ = accept(fd) (instance.rs:80). accept(2) waits for a
\* connection on a listening socket and fails at once on one that does not listen
reader_accept(i) ==
    /\ rd[i] = "accept"
    /\ listening => backlog > 0
    /\ backlog' = IF listening THEN backlog - 1 ELSE backlog
    /\ rd' = [rd EXCEPT ![i] = "idle_add"]
    /\ UNCHANGED <<holder, listening, ipc, tog, bres, iret, conn, quitq>>
    /\ UiFrame

\* The reader thread: glib::idle_add of gtk::main_quit (instance.rs:81-84)
reader_idle_add(i) ==
    /\ rd[i] = "idle_add"
    /\ quitq' = [quitq EXCEPT ![i] = TRUE]
    /\ rd' = [rd EXCEPT ![i] = "done"]
    /\ UNCHANGED <<holder, listening, backlog, ipc, tog, bres, iret, conn>>
    /\ UiFrame

\* A tick of the main loop runs the idle source: gtk::main_quit
\* (instance.rs:81-84, main.rs:39)
main_quit(i) ==
    /\ ipc[i] = "main"
    /\ quitq[i]
    /\ ipc' = [ipc EXCEPT ![i] = "exit"]
    /\ UNCHANGED <<holder, listening, backlog, tog, bres, iret, conn, rd, quitq>>
    /\ UiFrame

\* The user closes the window, or gtk::init or Ui::build failed (main.rs:28-39)
main_returns(i) ==
    /\ ipc[i] = "main"
    /\ ipc' = [ipc EXCEPT ![i] = "exit"]
    /\ UNCHANGED <<holder, listening, backlog, tog, bres, iret, conn, rd, quitq>>
    /\ UiFrame

\* main returns (main.rs:26, 39-40): the process is gone, its threads and its
\* socket with it, and the name is free again if its socket had it
process_exits(i) ==
    /\ ipc[i] = "exit"
    /\ ipc' = [ipc EXCEPT ![i] = "off"]
    /\ holder' = IF holder = i THEN "none" ELSE holder
    /\ listening' = IF holder = i THEN FALSE ELSE listening
    /\ backlog' = IF holder = i THEN 0 ELSE backlog
    /\ tog' = [tog EXCEPT ![i] = FALSE]
    /\ bres' = [bres EXCEPT ![i] = "none"]
    /\ iret' = [iret EXCEPT ![i] = "none"]
    /\ conn' = [conn EXCEPT ![i] = FALSE]
    /\ rd' = [rd EXCEPT ![i] = "none"]
    /\ quitq' = [quitq EXCEPT ![i] = FALSE]
    /\ UiFrame

UiNext ==
    \E i \in Instances :
        \/ create(i)
        \/ try_bind(i)
        \/ bind(i)
        \/ connect(i)
        \/ reader_listen(i)
        \/ reader_accept(i)
        \/ reader_idle_add(i)
        \/ main_quit(i)
        \/ main_returns(i)
        \/ process_exits(i)

\* ------------------------------------------------------------ name validation

\* Length of the varied head of the names that are validated
MaxHead == 2
\* The characters the head of a name is made of
HeadChars == {"a", "Z", "9", "-", "_", "U+00E9", "U+0663"}
Heads == UNION {[1..k -> HeadChars] : k \in 0..MaxHead}
\* The names validated: a head followed by between 0 and 41 letters
TestNames == {h \o [k \in 1..pad |-> "a"] : h \in Heads, pad \in 0..(MAX_REALMFS_NAME_LEN + 1)}

NameFrame == UNCHANGED <<installVars, realmVars, lockVars, updVars, forkVars, loadVars, uiVars, ovVars, cdVars, rzVars, pgVars, pfVars, stVars>>

NameInit ==
    /\ vname = << >>
    /\ vres = "none"


\* A name arrives to be validated
NameGiven ==
    /\ vres = "none"
    /\ \E n \in TestNames : vname' = n
    /\ vres' = "asked"
    /\ NameFrame

\* RealmFS::is_valid_name (realmfs.rs:146-148)
RealmFS_is_valid_name ==
    /\ vres = "asked"
    /\ vres' = IF is_valid_name(vname, MAX_REALMFS_NAME_LEN) THEN "accepted" ELSE "rejected"
    /\ UNCHANGED vname
    /\ NameFrame

\* The caller has the answer
NameAnswered ==
    /\ vres \in {"accepted", "rejected"}
    /\ vname' = << >>
    /\ vres' = "none"
    /\ NameFrame

NameNext == NameGiven \/ RealmFS_is_valid_name \/ NameAnswered

\* ---------------------------------------------------------------- RealmOverlay

\* OverlayType::TmpFS, OverlayType::Storage (overlay.rs:53-57)
OverlayTypes == {"TmpFS", "Storage"}
\* Paths given to create as lower
Lowers == {"/run/citadel/realmfs/realmfs-base-1.mountpoint", "/run/citadel/realmfs/realmfs-new-2.mountpoint"}

\* No overlay directory; the overlay directory as create_dir or btrfs subvolume
\* create leaves it
Absent == [dir |-> FALSE, upperdir |-> FALSE, workdir |-> FALSE, mountpoint |-> FALSE,
           lower |-> "none", mounted |-> FALSE]
Empty == [Absent EXCEPT !.dir = TRUE]

NoCall == [op |-> "none", overlay |-> "none", lower |-> "none"]
NoResult == [ok |-> FALSE, path |-> "none"]
Err == [ok |-> FALSE, path |-> "error"]
Ok(path) == [ok |-> TRUE, path |-> path]

OvFrame == UNCHANGED <<installVars, realmVars, lockVars, updVars, forkVars, loadVars, uiVars, nameVars, cdVars, rzVars, pgVars, pfVars, stVars>>

OvInit ==
    /\ ov = [t \in OverlayTypes |-> Absent]
    /\ opc = "idle"
    /\ oarg = NoCall
    /\ rlink = "none"
    /\ ores = NoResult
    /\ lastcreate = [t \in OverlayTypes |-> [lower |-> "none", ok |-> FALSE]]


\* The call is over with result res; a create leaves its lower path and whether
\* it returned Ok
OvFinish(res) ==
    /\ opc' = "done"
    /\ ores' = res
    /\ lastcreate' = IF oarg.op = "create"
                     THEN [lastcreate EXCEPT ![oarg.overlay] = [lower |-> oarg.lower, ok |-> res.ok]]
                     ELSE lastcreate

\* RealmOverlay::create (overlay.rs:50-58)
overlay_create ==
    /\ opc = "idle"
    /\ \E t \in OverlayTypes, lower \in Lowers : oarg' = [op |-> "create", overlay |-> t, lower |-> lower]
    /\ opc' = "exists"
    /\ UNCHANGED <<ov, rlink, ores, lastcreate>>
    /\ OvFrame

\* create_tmpfs, create_btrfs: if base.exists() (overlay.rs:106-107, 127-128)
create_exists ==
    /\ opc = "exists"
    /\ opc' = IF ov[oarg.overlay].dir THEN "teardown_umount"
              ELSE IF oarg.overlay = "Storage" THEN "subvolume_create" ELSE "upperdir"
    /\ UNCHANGED <<ov, oarg, rlink, ores, lastcreate>>
    /\ OvFrame

\* RealmOverlay::umount_overlay (overlay.rs:115-124), in create over an existing
\* directory (overlay.rs:109, 130) and in remove (overlay.rs:65-67): its answer
\* is not acted on
umount_overlay ==
    /\ opc \in {"teardown_umount", "remove_umount"}
    /\ \E ok \in (IF ov[oarg.overlay].mounted THEN BOOLEAN ELSE {FALSE}) :
        ov' = IF ok THEN [ov EXCEPT ![oarg.overlay].mounted = FALSE] ELSE ov
    /\ opc' = IF opc = "teardown_umount" THEN "teardown_remove" ELSE "read_link"
    /\ UNCHANGED <<oarg, rlink, ores, lastcreate>>
    /\ OvFrame

\* What is left of the overlay directory when removing it fails: all of it; for
\* fs::remove_dir_all also the directory with some entries gone
RemoveFailures(t) ==
    {ov[t]} \cup
    (IF t = "TmpFS" /\ ov[t].dir
     THEN {[ov[t] EXCEPT !.lower = "none"],
           [ov[t] EXCEPT !.lower = "none", !.upperdir = FALSE, !.workdir = FALSE]}
     ELSE {})

\* remove_tmpfs (fs::remove_dir_all) and remove_btrfs (btrfs subvolume delete)
\* (overlay.rs:93-103), in create over an existing directory (overlay.rs:110,
\* 131) and in remove (overlay.rs:72-77). A directory that is not there or that
\* something is mounted in cannot be removed
remove_base ==
    /\ opc \in {"teardown_remove", "remove_base"}
    /\ LET t == oarg.overlay IN
       \E ok \in (IF ov[t].dir /\ ~ov[t].mounted THEN BOOLEAN ELSE {FALSE}) :
          IF ok
          THEN /\ ov' = [ov EXCEPT ![t] = Absent]
               /\ IF opc = "teardown_remove"
                  THEN /\ opc' = IF t = "Storage" THEN "subvolume_create" ELSE "upperdir"
                       /\ UNCHANGED <<ores, lastcreate>>
                  ELSE OvFinish(IF rlink = "error" THEN Err ELSE Ok(rlink))
          ELSE /\ \E left \in RemoveFailures(t) : ov' = [ov EXCEPT ![t] = left]
               /\ OvFinish(Err)
    /\ UNCHANGED <<oarg, rlink>>
    /\ OvFrame

\* create_btrfs: btrfs subvolume create (overlay.rs:133)
subvolume_create ==
    /\ opc = "subvolume_create"
    /\ \E ok \in (IF ov[oarg.overlay].dir THEN {FALSE} ELSE BOOLEAN) :
        IF ok
        THEN /\ ov' = [ov EXCEPT ![oarg.overlay] = Empty]
             /\ opc' = "upperdir"
             /\ UNCHANGED <<ores, lastcreate>>
        ELSE /\ UNCHANGED ov
             /\ OvFinish(Err)
    /\ UNCHANGED <<oarg, rlink>>
    /\ OvFrame

\* setup_overlay: self.mkdir of upperdir, workdir and mountpoint
\* (overlay.rs:138-140, 153-157); create_dir makes the overlay directory too
mkdir(name, next) ==
    /\ opc = name
    /\ \E ok \in BOOLEAN :
        IF ok
        THEN /\ ov' = [ov EXCEPT ![oarg.overlay][name] = TRUE, ![oarg.overlay].dir = TRUE]
             /\ opc' = next
             /\ UNCHANGED <<ores, lastcreate>>
        ELSE /\ UNCHANGED ov
             /\ OvFinish(Err)
    /\ UNCHANGED <<oarg, rlink>>
    /\ OvFrame

mkdir_upperdir == opc = "upperdir" /\ mkdir("upperdir", "workdir")
mkdir_workdir == opc = "workdir" /\ mkdir("workdir", "mountpoint")
mkdir_mountpoint == opc = "mountpoint" /\ mkdir("mountpoint", "symlink")

\* Mutant of symlink: the link is made to the overlay's mountpoint
symlink_toMountpoint(o, lower) == [o EXCEPT !.lower = "mountpoint"]

\* util::symlink(lower, &baselower) (overlay.rs:141-142, util.rs:183-188): the
\* link holds the path it was given
symlink(o, lower) == [o EXCEPT !.lower = lower]

\* setup_overlay: the lower link (overlay.rs:141-142); a link that is there
\* cannot be made again
setup_symlink ==
    /\ opc = "symlink"
    /\ \E ok \in (IF ov[oarg.overlay].lower = "none" THEN BOOLEAN ELSE {FALSE}) :
        IF ok
        THEN /\ ov' = [ov EXCEPT ![oarg.overlay] = symlink(@, oarg.lower)]
             /\ opc' = "mount"
             /\ UNCHANGED <<ores, lastcreate>>
        ELSE /\ UNCHANGED ov
             /\ OvFinish(Err)
    /\ UNCHANGED <<oarg, rlink>>
    /\ OvFrame

\* setup_overlay: mount -t overlay, Ok(mountpoint) (overlay.rs:143-150)
setup_mount ==
    /\ opc = "mount"
    /\ \E ok \in BOOLEAN :
        /\ ov' = IF ok THEN [ov EXCEPT ![oarg.overlay].mounted = TRUE] ELSE ov
        /\ OvFinish(IF ok THEN Ok("mountpoint") ELSE Err)
    /\ UNCHANGED <<oarg, rlink>>
    /\ OvFrame

\* RealmOverlay::remove (overlay.rs:62-67)
overlay_remove ==
    /\ opc = "idle"
    /\ \E t \in OverlayTypes : oarg' = [op |-> "remove", overlay |-> t, lower |-> "none"]
    /\ opc' = "remove_umount"
    /\ UNCHANGED <<ov, rlink, ores, lastcreate>>
    /\ OvFrame

\* remove: base.join("lower").read_link() (overlay.rs:69-70)
read_link ==
    /\ opc = "read_link"
    /\ \E ok \in (IF ov[oarg.overlay].lower = "none" THEN {FALSE} ELSE BOOLEAN) :
        rlink' = IF ok THEN ov[oarg.overlay].lower ELSE "error"
    /\ opc' = "remove_base"
    /\ UNCHANGED <<ov, oarg, ores, lastcreate>>
    /\ OvFrame

\* The caller has the result; after a remove that returned Ok the overlay of
\* the last create is no more
OvReturns ==
    /\ opc = "done"
    /\ opc' = "idle"
    /\ lastcreate' = IF oarg.op = "remove" /\ ores.ok
                     THEN [lastcreate EXCEPT ![oarg.overlay] = [lower |-> "none", ok |-> FALSE]]
                     ELSE lastcreate
    /\ oarg' = NoCall
    /\ rlink' = "none"
    /\ ores' = NoResult
    /\ UNCHANGED ov
    /\ OvFrame

OvNext ==
    \/ overlay_create
    \/ create_exists
    \/ umount_overlay
    \/ remove_base
    \/ subvolume_create
    \/ mkdir_upperdir
    \/ mkdir_workdir
    \/ mkdir_mountpoint
    \/ setup_symlink
    \/ setup_mount
    \/ overlay_remove
    \/ read_link
    \/ OvReturns

\* ---------------------------------------------------------- RealmCreateDestroy

\* Homes saved to /realms/removed
MaxSaved == 2

\* A realm directory tree: its home ("none": no home; "made": the directory
\* only; "partial": some of its files; "full"), the rest of it (the realm's
\* configuration and whatever else a realm in use keeps there), and whether a
\* delete_realm took something out of it (history)
NoTree == [dir |-> FALSE, home |-> "none", rest |-> "none", cut |-> FALSE]
Tree(home, rest, cut) == [dir |-> TRUE, home |-> home, rest |-> rest, cut |-> cut]

CdFrame == UNCHANGED <<installVars, realmVars, lockVars, updVars, forkVars, loadVars, uiVars, nameVars, ovVars, rzVars, pgVars, pfVars, stVars>>

CdInit ==
    /\ final = NoTree
    /\ staging = NoTree
    /\ saved = 0
    /\ cpc = "idle"
    /\ cop = [op |-> "none", save_home |-> FALSE]
    /\ cres = "none"

\* RealmCreateDestroy::create (create.rs:35-38): the realm directory must not exist
realm_create ==
    /\ cpc = "idle"
    /\ cop' = [op |-> "create", save_home |-> FALSE]
    /\ IF final.dir
       THEN cpc' = "done" /\ cres' = "already exists"
       ELSE cpc' = "create_dir" /\ cres' = "none"
    /\ UNCHANGED <<final, staging, saved>>
    /\ CdFrame

\* create_home: util::create_dir(&home) (create.rs:56-58): makes the staging
\* directory and the home in it unless the home is there
create_home_dir ==
    /\ cpc = "create_dir"
    /\ IF staging.home # "none"
       THEN /\ cpc' = "chown"
            /\ UNCHANGED staging
       ELSE \E ok \in BOOLEAN :
            /\ staging' = IF ok THEN Tree("made", staging.rest, staging.cut) ELSE staging
            /\ cpc' = IF ok THEN "chown" ELSE "create_failed"
    /\ UNCHANGED <<final, saved, cop, cres>>
    /\ CdFrame

\* create_home: util::chown(&home, 1000, 1000) (create.rs:59)
create_home_chown ==
    /\ cpc = "chown"
    /\ \E ok \in BOOLEAN : cpc' = IF ok THEN "copy_tree" ELSE "create_failed"
    /\ UNCHANGED <<final, staging, saved, cop, cres>>
    /\ CdFrame

\* create_home: util::copy_tree(&skel, &home) when /realms/skel exists
\* (create.rs:61-67). copy_path refuses a destination that exists
\* (util.rs:268-271), so the copy fails over a home that has files; a copy that
\* fails leaves part of the files
create_home_copy ==
    /\ cpc = "copy_tree"
    /\ \E skel \in BOOLEAN :
        IF ~skel
        THEN /\ staging' = IF staging.home = "made" THEN [staging EXCEPT !.home = "full"] ELSE staging
             /\ cpc' = "move_from_temp"
        ELSE \E ok \in (IF staging.home = "made" THEN BOOLEAN ELSE {FALSE}) :
             /\ staging' = IF staging.home = "made"
                           THEN [staging EXCEPT !.home = IF ok THEN "full" ELSE "partial"]
                           ELSE staging
             /\ cpc' = IF ok THEN "move_from_temp" ELSE "create_failed"
    /\ UNCHANGED <<final, saved, cop, cres>>
    /\ CdFrame

\* RealmCreateDestroy::move_from_temp (create.rs:71-78)
move_from_temp ==
    /\ cpc = "move_from_temp"
    /\ \E ok \in (IF final.dir THEN {FALSE} ELSE BOOLEAN) :
        /\ final' = IF ok THEN staging ELSE final
        /\ staging' = IF ok THEN NoTree ELSE staging
        /\ cpc' = IF ok THEN "done" ELSE "create_failed"
        /\ cres' = IF ok THEN "ok" ELSE "none"
    /\ UNCHANGED <<saved, cop>>
    /\ CdFrame

\* create: create_realm_directory failed (create.rs:40-46): the staging
\* directory, if there is one, is removed, a failure to remove it is ignored
\* and may leave part of it
create_failed ==
    /\ cpc = "create_failed"
    /\ IF staging.dir
       THEN \E left \in {NoTree, staging} \cup
                         (IF staging.home \in {"partial", "full"}
                          THEN {[staging EXCEPT !.home = "partial"]} ELSE {}) : staging' = left
       ELSE UNCHANGED staging
    /\ cpc' = "done"
    /\ cres' = "error"
    /\ UNCHANGED <<final, saved, cop>>
    /\ CdFrame

\* The realm is used: its configuration and other files are written under its
\* directory
realm_used ==
    /\ cpc = "idle"
    /\ final.dir
    /\ final.rest = "none"
    /\ final' = [final EXCEPT !.rest = "full"]
    /\ UNCHANGED <<staging, saved, cpc, cop, cres>>
    /\ CdFrame

\* RealmCreateDestroy::delete_realm (create.rs:92-94)
delete_realm ==
    /\ cpc = "idle"
    /\ \E save_home \in (IF saved < MaxSaved THEN BOOLEAN ELSE {FALSE}) :
        cop' = [op |-> "delete", save_home |-> save_home]
    /\ cpc' = "move_to_temp"
    /\ cres' = "none"
    /\ UNCHANGED <<final, staging, saved>>
    /\ CdFrame

\* RealmCreateDestroy::move_to_temp (create.rs:80-90): not over an existing
\* staging directory; a realm directory that is not there cannot be renamed
move_to_temp ==
    /\ cpc = "move_to_temp"
    /\ \E ok \in (IF staging.dir \/ ~final.dir THEN {FALSE} ELSE BOOLEAN) :
        /\ staging' = IF ok THEN final ELSE staging
        /\ final' = IF ok THEN NoTree ELSE final
        /\ cpc' = IF ~ok THEN "done" ELSE IF cop.save_home THEN "save_home" ELSE "remove_dir_all"
        /\ cres' = IF ok THEN "none" ELSE "error"
    /\ UNCHANGED <<saved, cop>>
    /\ CdFrame

\* RealmCreateDestroy::save_home_for_delete (create.rs:105-114)
save_home_for_delete ==
    /\ cpc = "save_home"
    /\ \E ok \in (IF staging.home = "none" THEN {FALSE} ELSE BOOLEAN) :
        /\ staging' = IF ok THEN [staging EXCEPT !.home = "none", !.cut = TRUE] ELSE staging
        /\ saved' = IF ok THEN saved + 1 ELSE saved
        /\ cpc' = IF ok THEN "remove_dir_all" ELSE "done"
        /\ cres' = IF ok THEN "none" ELSE "error"
    /\ UNCHANGED <<final, cop>>
    /\ CdFrame

\* What a fs::remove_dir_all that fails leaves of the staging directory: all
\* of it, or the directory with some of its files gone
PartlyRemoved ==
    {staging} \cup
    ({Tree(h, r, TRUE) :
        h \in (IF staging.home \in {"partial", "full"} THEN {staging.home, "partial", "none"}
               ELSE {staging.home, "none"}),
        r \in (IF staging.rest = "none" THEN {"none"} ELSE {staging.rest, "partial", "none"})} \
     {Tree(staging.home, staging.rest, TRUE)})

\* delete_realm: fs::remove_dir_all(&realmdir) (create.rs:99-102)
delete_remove ==
    /\ cpc = "remove_dir_all"
    /\ \E ok \in BOOLEAN :
        IF ok
        THEN staging' = NoTree /\ cres' = "ok"
        ELSE (\E left \in PartlyRemoved : staging' = left) /\ cres' = "error"
    /\ cpc' = "done"
    /\ UNCHANGED <<final, saved, cop>>
    /\ CdFrame

\* The caller has the result
CdReturns ==
    /\ cpc = "done"
    /\ cpc' = "idle"
    /\ cop' = [op |-> "none", save_home |-> FALSE]
    /\ cres' = "none"
    /\ UNCHANGED <<final, staging, saved>>
    /\ CdFrame

CdNext ==
    \/ realm_create
    \/ create_home_dir
    \/ create_home_chown
    \/ create_home_copy
    \/ move_from_temp
    \/ create_failed
    \/ realm_used
    \/ delete_realm
    \/ move_to_temp
    \/ save_home_for_delete
    \/ delete_remove
    \/ CdReturns

\* -------------------------------------------------- resize of a RealmFS image

\* resizer.rs:9
BLOCK_SIZE == 4096
\* resizer.rs:10
BLOCKS_PER_MEG == (1024 * 1024) \div BLOCK_SIZE
\* resizer.rs:11
BLOCKS_PER_GIG == 1024 * BLOCKS_PER_MEG

\* ResizeSize::gigs (resizer.rs:24-27)
gigs(n) == BLOCKS_PER_GIG * n

\* If less than 1gb remaining space ... (resizer.rs:13-14)
AUTO_RESIZE_MINIMUM_FREE == BLOCKS_PER_GIG
\* ... add 4gb to size of image (resizer.rs:15-16)
AUTO_RESIZE_INCREASE_SIZE == 4 * BLOCKS_PER_GIG

\* Option<ResizeSize> (update.rs:30)
None == [some |-> FALSE, nblocks |-> 0]
Some(n) == [some |-> TRUE, nblocks |-> n]

\* The largest image, in GiB
MaxGigs == 9

\* The images resized: the header block and the filesystem end at a GiB
\* boundary or one block before it; the free block count of the superblock is
\* at, next to or far below AUTO_RESIZE_MINIMUM_FREE; the file has a hash tree
\* after the filesystem (a block stands for it) with or without FLAG_HASH_TREE,
\* or none; the superblock can be read or not
ResizeImages ==
    {[nblocks |-> gigs(g) - 1 - d, free |-> f, hash |-> h, extra |-> x, sb |-> s] :
        g \in 1..MaxGigs, d \in {0, 1},
        f \in {0, 1, AUTO_RESIZE_MINIMUM_FREE - 1, AUTO_RESIZE_MINIMUM_FREE},
        h \in BOOLEAN, x \in {1}, s \in BOOLEAN}
    \cup
    {[nblocks |-> gigs(g) - 1, free |-> f, hash |-> FALSE, extra |-> 0, sb |-> TRUE] :
        g \in 1..MaxGigs, f \in {1, AUTO_RESIZE_MINIMUM_FREE}}

NoResizeImage == [nblocks |-> 0, free |-> 0, hash |-> FALSE, extra |-> 0, sb |-> FALSE]

\* x & !m of (free_blocks + mask) & !mask (resizer.rs:66), bit by bit
RECURSIVE and_not(_, _)
and_not(x, m) ==
    IF x = 0 THEN 0
    ELSE (IF x % 2 = 1 /\ m % 2 = 0 THEN 1 ELSE 0) + 2 * and_not(x \div 2, m \div 2)

\* ResizeSize::auto_resize_size (resizer.rs:50-71)
auto_resize_size(i) ==
    IF ~i.sb THEN None
    ELSE LET free_blocks == i.free IN
         IF free_blocks < AUTO_RESIZE_MINIMUM_FREE
         THEN LET metainfo_nblocks == i.nblocks + 1
                  increase_multiple == metainfo_nblocks \div AUTO_RESIZE_INCREASE_SIZE
                  grow_size == (increase_multiple + 1) * AUTO_RESIZE_INCREASE_SIZE
                  mask == grow_size - 1
                  grow_blocks == and_not(free_blocks + mask, mask)
              IN  Some(grow_blocks)
         ELSE None

\* Update::metainfo_nblock_size (update.rs:119-123)
metainfo_nblock_size == rzimg.nblocks + 1

\* RealmFS::file_nblocks: the length of the image file in blocks
file_nblocks == rzimg.nblocks + 1 + rzimg.extra

RzFrame == UNCHANGED <<installVars, realmVars, lockVars, updVars, forkVars, loadVars, uiVars, nameVars, ovVars, cdVars, pgVars, pfVars, stVars>>

RzInit ==
    /\ rzpc = "idle"
    /\ rzimg = NoResizeImage
    /\ resize = None
    /\ auto = None
    /\ target_len = 0
    /\ rzres = "none"
    /\ rzop = "none"

\* Update::create, Update::new (update.rs:35-62): the Update of an image starts
\* with the resize that auto_resize_size recommends
Update_new ==
    /\ rzpc = "idle"
    /\ \E i \in ResizeImages :
        /\ rzimg' = i
        /\ resize' = auto_resize_size(i)
        /\ auto' = auto_resize_size(i)
    /\ rzpc' = "new"
    /\ UNCHANGED <<target_len, rzres>>
    /\ UNCHANGED rzop
    /\ RzFrame

\* The block counts asked of grow_to: around the size of the image and around
\* 8 GiB above it
GrowToSizes ==
    {rzimg.nblocks + d : d \in {0, 1, 2}} \cup {rzimg.nblocks + gigs(8) + d : d \in {0, 1}} \cup {gigs(1)}

\* The block counts asked of grow_by
GrowBySizes == {0, 1, gigs(8) - 1, gigs(8)}

\* RealmFS::resize_grow_to (realmfs.rs:379-384), Update::grow_to
\* (update.rs:145-153), Update::set_resize (update.rs:160-162)
grow_to ==
    /\ rzpc = "new"
    /\ \E size \in GrowToSizes :
        LET target_nblocks == size
            current_nblocks == metainfo_nblock_size
        IN  resize' = IF current_nblocks >= target_nblocks THEN resize ELSE Some(target_nblocks)
    /\ rzpc' = "resize"
    /\ UNCHANGED <<rzimg, auto, target_len, rzres>>
    /\ rzop' = "grow_to"
    /\ RzFrame

\* RealmFS::resize_grow_by (realmfs.rs:386-391), Update::grow_by
\* (update.rs:155-158)
grow_by ==
    /\ rzpc = "new"
    /\ \E size \in GrowBySizes : resize' = Some(metainfo_nblock_size + size)
    /\ rzpc' = "resize"
    /\ UNCHANGED <<rzimg, auto, target_len, rzres>>
    /\ rzop' = "grow_by"
    /\ RzFrame

\* Update::resize (update.rs:92-95): nothing to do without a resize
Update_resize ==
    /\ rzpc = "resize"
    /\ IF ~resize.some
       THEN rzpc' = "done" /\ rzres' = "ok"
       ELSE rzpc' = "copy" /\ rzres' = "none"
    /\ UNCHANGED <<rzimg, resize, auto, target_len>>
    /\ UNCHANGED rzop
    /\ RzFrame

\* Update::setup (update.rs:84-85): the interactive update makes its copy with
\* the resize it was constructed with
Update_setup ==
    /\ rzpc = "new"
    /\ rzpc' = "copy"
    /\ UNCHANGED <<rzimg, resize, auto, target_len, rzres>>
    /\ rzop' = "setup"
    /\ RzFrame

\* Update::create_update_copy (update.rs:72-77): the update copy is as long as
\* the image file
resize_copy ==
    /\ rzpc = "copy"
    /\ \E ok \in BOOLEAN :
        /\ target_len' = IF ok THEN file_nblocks ELSE target_len
        /\ rzpc' = IF ok THEN "truncate_verity 1" ELSE "done"
        /\ rzres' = IF ok THEN "none" ELSE "copy failed"
    /\ UNCHANGED <<rzimg, resize, auto>>
    /\ UNCHANGED rzop
    /\ RzFrame

\* Update::truncate_verity (update.rs:174-184), called by create_update_copy
\* (update.rs:79) and again by its caller (update.rs:86, 98);
\* Update::set_target_len (update.rs:164-171)
resize_truncate_verity ==
    /\ rzpc \in {"truncate_verity 1", "truncate_verity 2"}
    /\ \E ok \in BOOLEAN :
        /\ target_len' = IF ok /\ rzimg.hash THEN metainfo_nblock_size ELSE target_len
        /\ rzpc' = IF ~ok THEN "done"
                   ELSE IF rzpc = "truncate_verity 1" THEN "resize_image_file 1" ELSE "resize_image_file 2"
        /\ rzres' = IF ok THEN "none" ELSE "truncate failed"
    /\ UNCHANGED <<rzimg, resize, auto>>
    /\ UNCHANGED rzop
    /\ RzFrame

\* Mutant of resize_image_file: the 8gb restriction is left out
resize_image_file_uncapped ==
    /\ rzpc \in {"resize_image_file 1", "resize_image_file 2"}
    /\ LET next == IF rzpc = "resize_image_file 1" THEN "truncate_verity 2" ELSE "resize_device" IN
       IF ~resize.some
       THEN rzpc' = next /\ UNCHANGED <<target_len, rzres>>
       ELSE LET nblocks == resize.nblocks + 1 IN
            IF nblocks < metainfo_nblock_size
            THEN rzpc' = "done" /\ rzres' = "Cannot shrink image" /\ UNCHANGED target_len
            ELSE \E ok \in BOOLEAN :
                 /\ target_len' = IF ok THEN nblocks ELSE target_len
                 /\ rzpc' = IF ok THEN next ELSE "done"
                 /\ rzres' = IF ok THEN "none" ELSE "set_len failed"
    /\ UNCHANGED <<rzimg, resize, auto>>
    /\ UNCHANGED rzop
    /\ RzFrame

\* Update::resize_image_file (update.rs:187-201), called by create_update_copy
\* (update.rs:80) and again by its caller (update.rs:87, 99);
\* Update::set_target_len (update.rs:164-171)
resize_image_file ==
    /\ rzpc \in {"resize_image_file 1", "resize_image_file 2"}
    /\ LET next == IF rzpc = "resize_image_file 1" THEN "truncate_verity 2" ELSE "resize_device" IN
       IF ~resize.some
       THEN rzpc' = next /\ UNCHANGED <<target_len, rzres>>
       ELSE LET nblocks == resize.nblocks + 1 IN
            IF nblocks < metainfo_nblock_size
            THEN rzpc' = "done" /\ rzres' = "Cannot shrink image" /\ UNCHANGED target_len
            ELSE IF (nblocks - metainfo_nblock_size) > gigs(8)
            THEN rzpc' = "done" /\ rzres' = "maximum of 8gb" /\ UNCHANGED target_len
            ELSE \E ok \in BOOLEAN :
                 /\ target_len' = IF ok THEN nblocks ELSE target_len
                 /\ rzpc' = IF ok THEN next ELSE "done"
                 /\ rzres' = IF ok THEN "none" ELSE "set_len failed"
    /\ UNCHANGED <<rzimg, resize, auto>>
    /\ UNCHANGED rzop
    /\ RzFrame

\* Update::resize_device on a loop device of the copy (update.rs:101-103,
\* 106-110, 137-143): e2fsck and resize2fs
resize_device ==
    /\ rzpc = "resize_device"
    /\ \E ok \in BOOLEAN : rzres' = IF ok THEN "ok" ELSE "resize_device failed"
    /\ rzpc' = "done"
    /\ UNCHANGED <<rzimg, resize, auto, target_len>>
    /\ UNCHANGED rzop
    /\ RzFrame

\* The Update is dropped when resize_grow_to, resize_grow_by or the interactive
\* update returns: Drop (update.rs:351-355) runs Update::cleanup
\* (update.rs:203-223), which removes the update copy, a failure being logged
Update_cleanup ==
    /\ rzpc = "done"
    /\ \E ok \in BOOLEAN : target_len' = IF ok THEN 0 ELSE target_len
    /\ rzpc' = "returned"
    /\ UNCHANGED <<rzimg, resize, auto, rzres, rzop>>
    /\ RzFrame

\* The caller has the result
RzReturns ==
    /\ rzpc = "returned"
    /\ rzpc' = "idle"
    /\ rzimg' = NoResizeImage
    /\ resize' = None
    /\ auto' = None
    /\ target_len' = 0
    /\ rzres' = "none"
    /\ rzop' = "none"
    /\ RzFrame

RzNext ==
    \/ Update_new
    \/ grow_to
    \/ grow_by
    \/ Update_resize
    \/ Update_setup
    \/ resize_copy
    \/ resize_truncate_verity
    \/ resize_image_file
    \/ resize_device
    \/ Update_cleanup
    \/ RzReturns

\* ------------------------------------------- installer UI: install progress

\* Messages the UI receives beyond the ones of one install
MaxMsgs == 3

\* enum Msg (ui.rs:21-30)
UiMsgs == {"InstallStarted", "LuksSetup", "LvmSetup", "BootSetup", "StorageCreated",
           "RootfsInstalled", "InstallCompleted", "InstallFailed"}

\* The messages of an install that succeeds, in the order of the pipeline:
\* InstallStarted is sent by the UI itself when the install is applied
\* (ui.rs:314), the others come from the backend's signals (ui.rs:379-409)
PipelineOrder == << "InstallStarted", "LuksSetup", "LvmSetup", "BootSetup", "StorageCreated",
                    "RootfsInstalled", "InstallCompleted" >>

IsPrefix(a, b) == Len(a) <= Len(b) /\ a = SubSeq(b, 1, Len(a))

\* The messages of one install so far: those of a succeeding one, or some of
\* them and then InstallFailed
InPipelineOrder(seq) ==
    \/ IsPrefix(seq, PipelineOrder)
    \/ /\ seq # << >>
       /\ seq[Len(seq)] = "InstallFailed"
       /\ Len(seq) <= Len(PipelineOrder)
       /\ IsPrefix(SubSeq(seq, 1, Len(seq) - 1), PipelineOrder)

\* The argument of install_progress.set_fraction in the handler of each
\* message (ui.rs:168-222), in 1/10000: 0.1428 is 1428, 1.0 is 10000
set_fraction(msg) ==
    CASE msg = "InstallStarted" -> 1428
      [] msg = "LuksSetup" -> 1428 * 2
      [] msg = "LvmSetup" -> 1428 * 3
      [] msg = "BootSetup" -> 1428 * 4
      [] msg = "StorageCreated" -> 1428 * 5
      [] msg = "RootfsInstalled" -> 1428 * 6
      [] msg = "InstallCompleted" -> 10000
      [] msg = "InstallFailed" -> 100 * 10000

PgFrame == UNCHANGED <<installVars, realmVars, lockVars, updVars, forkVars, loadVars, uiVars, nameVars, ovVars, cdVars, rzVars, pfVars, stVars>>

\* Ui::build (ui.rs:53-166): a new progress bar is at 0
PgInit ==
    /\ fraction = 0
    /\ progress = << >>

\* The closure attached to the receiver (ui.rs:166-237) handles a message
UiReceive ==
    /\ \E msg \in UiMsgs :
        /\ Len(progress) < MaxMsgs \/ InPipelineOrder(Append(progress, msg))
        /\ fraction' = set_fraction(msg)
        /\ progress' = Append(progress, msg)
    /\ PgFrame

PgNext == UiReceive

\* --------------------------------------------------- Mountpoint file names

\* Parts a RealmFS name is made of in the model
MaxParts == 3

REALMFS_PREFIX == <<"r", "e", "a", "l", "m", "f", "s", "-">>
MOUNTPOINT_EXT == <<".", "m", "o", "u", "n", "t", "p", "o", "i", "n", "t">>
VERITY_PREFIX == <<"v", "e", "r", "i", "t", "y", "-">>

\* The names: one to MaxParts of the parts "realmfs", "-", "a" and "b9", as
\* far as RealmFS::is_valid_name accepts them
NameParts == {<<"r", "e", "a", "l", "m", "f", "s">>, <<"-">>, <<"a">>, <<"b", "9">>}
RECURSIVE Concat(_)
Concat(parts) == IF parts = << >> THEN << >> ELSE Head(parts) \o Concat(Tail(parts))
MountNames ==
    {n \in {Concat(ps) : ps \in UNION {[1..k -> NameParts] : k \in 1..MaxParts}} :
        is_valid_name(n, MAX_REALMFS_NAME_LEN)}

\* MetaInfo::verity_tag: hexadecimal digits of the root hash
VerityTags == {<<"9", "a">>, <<"b", "9", "9">>}

StartsWith(s, pat) == Len(pat) <= Len(s) /\ SubSeq(s, 1, Len(pat)) = pat
EndsWith(s, pat) == Len(pat) <= Len(s) /\ SubSeq(s, Len(s) - Len(pat) + 1, Len(s)) = pat

\* str::trim_start_matches: the pattern is removed as often as the string
\* starts with it
RECURSIVE trim_start_matches(_, _)
trim_start_matches(s, pat) ==
    IF StartsWith(s, pat) THEN trim_start_matches(SubSeq(s, Len(pat) + 1, Len(s)), pat) ELSE s

\* str::trim_end_matches: the pattern is removed as often as the string ends
\* with it
RECURSIVE trim_end_matches(_, _)
trim_end_matches(s, pat) ==
    IF EndsWith(s, pat) THEN trim_end_matches(SubSeq(s, 1, Len(s) - Len(pat)), pat) ELSE s

\* str::rfind of a character: the last place it is at (0: None)
rfind(s, c) ==
    IF \E k \in 1..Len(s) : s[k] = c
    THEN CHOOSE k \in 1..Len(s) : s[k] = c /\ \A j \in (k + 1)..Len(s) : s[j] # c
    ELSE 0

NoFields == [some |-> FALSE, realmfs |-> << >>, tag |-> << >>]

\* Mountpoint::new (mountpoint.rs:54-61): the file name of the path
Mountpoint_new(name, tag) == REALMFS_PREFIX \o name \o <<"-">> \o tag \o MOUNTPOINT_EXT

\* Mountpoint::parse_filename (mountpoint.rs:189-199)
parse_filename(path) ==
    LET file_name == trim_start_matches(trim_end_matches(path, MOUNTPOINT_EXT), REALMFS_PREFIX)
        idx == rfind(file_name, "-")
    IN  IF idx = 0 THEN NoFields
        ELSE [some |-> TRUE, realmfs |-> SubSeq(file_name, 1, idx - 1), tag |-> SubSeq(file_name, idx + 1, Len(file_name))]

\* Mountpoint::verity_device (mountpoint.rs:157-161) with Mountpoint::realmfs,
\* Mountpoint::tag and filename_fields (mountpoint.rs:169-187), whose expect
\* panics when the file name does not parse
verity_device(path) ==
    LET fields == parse_filename(path) IN
    IF ~fields.some THEN [ok |-> FALSE, name |-> << >>]
    ELSE [ok |-> TRUE, name |-> VERITY_PREFIX \o REALMFS_PREFIX \o fields.realmfs \o <<"-">> \o fields.tag]

\* Verity::device_name of a realmfs image (verity.rs:96-105): the name of the
\* device Verity::setup creates
device_name(name, tag) == VERITY_PREFIX \o REALMFS_PREFIX \o name \o <<"-">> \o tag

PfFrame == UNCHANGED <<installVars, realmVars, lockVars, updVars, forkVars, loadVars, uiVars, nameVars, ovVars, cdVars, rzVars, pgVars, stVars>>

PfInit ==
    /\ pfpc = "none"
    /\ pfname = << >>
    /\ pftag = << >>
    /\ pfmp = << >>
    /\ pfdev = [ok |-> FALSE, name |-> << >>]

\* RealmFS::mountpoint (realmfs.rs:166-169): the Mountpoint of a RealmFS
MountpointNew ==
    /\ pfpc = "none"
    /\ \E name \in MountNames, tag \in VerityTags :
        /\ pfname' = name
        /\ pftag' = tag
        /\ pfmp' = Mountpoint_new(name, tag)
    /\ pfpc' = "new"
    /\ UNCHANGED pfdev
    /\ PfFrame

\* The Mountpoint looks for or closes its device (mountpoint.rs:102-112, 136-143, 152-161)
MountpointVerityDevice ==
    /\ pfpc = "new"
    /\ pfdev' = verity_device(pfmp)
    /\ pfpc' = "parsed"
    /\ UNCHANGED <<pfname, pftag, pfmp>>
    /\ PfFrame

\* The Mountpoint is dropped
MountpointDropped ==
    /\ pfpc = "parsed"
    /\ pfpc' = "none"
    /\ pfname' = << >>
    /\ pftag' = << >>
    /\ pfmp' = << >>
    /\ pfdev' = [ok |-> FALSE, name |-> << >>]
    /\ PfFrame

PfNext ==
    \/ MountpointNew
    \/ MountpointVerityDevice
    \/ MountpointDropped

\* ----------------------------------------------- RealmFS: stale image header

MaxTags == 2
\* the verity tags an image header can carry
HeaderTags == 1..MaxTags

StFrame == UNCHANGED <<installVars, realmVars, lockVars, updVars, forkVars, loadVars, uiVars, nameVars, ovVars, cdVars, rzVars, pgVars, pfVars>>

\* RealmFS::load (realmfs.rs:66-90): the header is read from the image file and
\* the Mountpoint made from its verity tag
StInit ==
    /\ hdisk = 1
    /\ hmem = hdisk
    /\ smp = hdisk
    /\ stself = 0
    /\ stdirs = {}
    /\ stdevs = {}
    /\ stmnt = {}
    /\ stpc = "idle"
    /\ stres = "none"
    /\ stmade = 0

ImageInit == LockInit /\ UpdInit /\ ForkInit /\ LoadInit /\ UiInit /\ NameInit /\ OvInit /\ CdInit /\ RzInit /\ PgInit /\ PfInit /\ StInit

\* ImageHeader::reload_if_stale: whether the header on disk is no longer the
\* one in memory
reload_if_stale == hmem # hdisk

\* RealmFS::check_stale_header (realmfs.rs:227-233): the Mountpoint the RealmFS
\* holds after it, the header being reloaded when stale
check_stale_header == IF reload_if_stale THEN hdisk ELSE smp

\* An applied update replaces the header of the image file, between two
\* operations on the RealmFS
HeaderReplaced ==
    /\ stpc = "idle"
    /\ \E t \in HeaderTags \ {hdisk} : hdisk' = t
    /\ UNCHANGED <<hmem, smp, stself, stdirs, stdevs, stmnt, stpc, stres, stmade>>
    /\ StFrame

\* RealmFS::header (realmfs.rs:235-240), called by RealmFS::metainfo and others
StHeader ==
    /\ stpc = "idle"
    /\ reload_if_stale
    /\ hmem' = hdisk
    /\ smp' = check_stale_header
    /\ UNCHANGED <<hdisk, stself, stdirs, stdevs, stmnt, stpc, stres, stmade>>
    /\ StFrame

\* RealmFS::activate (realmfs.rs:405-407): self.mountpoint() clones the
\* Mountpoint held (realmfs.rs:166-169); Mountpoint::activate returns at once
\* when it is mounted (mountpoint.rs:80-82)
StActivate ==
    /\ stpc = "idle"
    /\ stself' = smp
    /\ stres' = IF smp \in stmnt THEN "ok" ELSE "none"
    /\ stpc' = IF smp \in stmnt THEN "idle" ELSE "mkdir"
    /\ stmade' = 0
    /\ UNCHANGED <<hdisk, hmem, smp, stdirs, stdevs, stmnt>>
    /\ StFrame

\* util::create_dir(self.path())? (mountpoint.rs:84)
StMkdir ==
    /\ stpc = "mkdir"
    /\ \E ok \in BOOLEAN :
        IF ok
        THEN /\ stdirs' = stdirs \cup {stself}
             /\ stpc' = IF stself \in stdevs THEN "mount" ELSE "setup"
             /\ UNCHANGED stres
        ELSE /\ stpc' = "idle"
             /\ stres' = "create_dir failed"
             /\ UNCHANGED stdirs
    /\ UNCHANGED <<hdisk, hmem, smp, stself, stdevs, stmnt, stmade>>
    /\ StFrame

\* setup_verity (mountpoint.rs:102-112): realmfs.header() reloads a stale
\* header; Verity::new reads the header of the image file and Verity::setup
\* names the device after its tag (verity.rs:18-25, 75-83, 96-105). On failure
\* the directory is removed, a failure of that ignored (mountpoint.rs:89-92)
StSetup ==
    /\ stpc = "setup"
    /\ hmem' = hdisk
    /\ smp' = check_stale_header
    /\ \E ok \in (IF hdisk \in stdevs THEN {FALSE} ELSE BOOLEAN), rm \in BOOLEAN :
        IF ok
        THEN /\ stdevs' = stdevs \cup {hdisk}
             /\ stmade' = hdisk
             /\ stpc' = "mount"
             /\ UNCHANGED <<stdirs, stres>>
        ELSE /\ stdirs' = IF rm THEN stdirs \ {stself} ELSE stdirs
             /\ stpc' = "idle"
             /\ stres' = "verity setup failed"
             /\ UNCHANGED <<stdevs, stmade>>
    /\ UNCHANGED <<hdisk, stself, stmnt>>
    /\ StFrame

\* self.mount(verity_path) (mountpoint.rs:94-99): the source is the device of
\* this Mountpoint's tag, and mount fails when there is no such device
StMount ==
    /\ stpc = "mount"
    /\ \E ok \in (IF stself \in stdevs THEN BOOLEAN ELSE {FALSE}) :
        IF ok
        THEN /\ stmnt' = stmnt \cup {stself}
             /\ stpc' = "idle"
             /\ stres' = "ok"
        ELSE /\ stpc' = "deactivate"
             /\ stres' = "mount failed"
             /\ UNCHANGED stmnt
    /\ UNCHANGED <<hdisk, hmem, smp, stself, stdirs, stdevs, stmade>>
    /\ StFrame

\* Mountpoint::deactivate of tag t (mountpoint.rs:125-150): unmount, close the
\* device of this Mountpoint's tag, remove the directory; each failure is logged
deactivated(t, um, cl, rm) ==
    /\ stmnt' = IF t \in stdirs /\ um THEN stmnt \ {t} ELSE stmnt
    /\ stdevs' = IF t \in stdirs /\ cl /\ t \notin stmnt' THEN stdevs \ {t} ELSE stdevs
    /\ stdirs' = IF rm /\ t \notin stmnt' THEN stdirs \ {t} ELSE stdirs

\* self.deactivate() after the failed mount (mountpoint.rs:95-96)
StUnwind ==
    /\ stpc = "deactivate"
    /\ \E um, cl, rm \in BOOLEAN : deactivated(stself, um, cl, rm)
    /\ stpc' = "idle"
    /\ UNCHANGED <<hdisk, hmem, smp, stself, stres, stmade>>
    /\ StFrame

\* RealmFS::deactivate (realmfs.rs:255-259) of a RealmFS not in use
StDeactivate ==
    /\ stpc = "idle"
    /\ \E um, cl, rm \in BOOLEAN : deactivated(smp, um, cl, rm)
    /\ stself' = 0
    /\ stres' = "none"
    /\ stmade' = 0
    /\ UNCHANGED <<hdisk, hmem, smp, stpc>>
    /\ StFrame

StNext ==
    \/ HeaderReplaced
    \/ StHeader
    \/ StActivate
    \/ StMkdir
    \/ StSetup
    \/ StMount
    \/ StUnwind
    \/ StDeactivate

\* ------------------------------------------------------------ specifications

\* The installer backend; the RealmFS side stays as constructed
InitInstall ==
    /\ InstallInit
    /\ ImageInit
    /\ RealmInit
    /\ img = [f \in RealmFSNames |-> [hashtree |-> FALSE, sigOk |-> TRUE, trees |-> 0]]
    /\ nosig = FALSE

SpecInstall == InitInstall /\ [][InstallNext]_vars

\* The installer backend with several RunInstall calls, all artifacts in place
InitInstallQueue ==
    /\ pending = <<>>
    /\ replies = {}
    /\ queue = <<>>
    /\ signals = << Msg("ServiceStarted", "", 0) >>
    /\ loop = "process"
    /\ cur = 0
    /\ pc = 0
    /\ ran = [i \in QueuedIds |-> <<>>]
    /\ result = [i \in QueuedIds |-> "none"]
    /\ target = [i \in QueuedIds |-> "none"]
    /\ sys = [passfile |-> FALSE, luksOpen |-> FALSE, vgActive |-> FALSE,
              mounted |-> FALSE, diskWritten |-> FALSE]
    /\ artifacts = AllArtifacts
    /\ ImageInit
    /\ RealmInit
    /\ img = [f \in RealmFSNames |-> [hashtree |-> FALSE, sigOk |-> TRUE, trees |-> 0]]
    /\ nosig = FALSE

SpecInstallQueue == InitInstallQueue /\ [][InstallNext]_vars

\* RealmFS activation and realm start/stop, one operation at a time; the
\* installer side stays as constructed
InitRealmFS ==
    /\ InstallInit
    /\ ImageInit
    /\ artifacts = AllArtifacts
    /\ RealmInit

SpecRealmFS == InitRealmFS /\ [][RealmNext]_vars

\* RealmFS activation and realm start/stop with callers running at the same
\* time (realmsd starts and stops realms on threads of their own, dbus.rs:131-153)
InitRealmFSConcurrent ==
    /\ InstallInit
    /\ ImageInit
    /\ artifacts = AllArtifacts
    /\ mp = [f \in RealmFSNames |-> [dir |-> FALSE, mounts |-> 0, verity |-> FALSE]]
    /\ img = [f \in RealmFSNames |-> [hashtree |-> FALSE, sigOk |-> TRUE, trees |-> 0]]
    /\ nosig = FALSE
    /\ running = {}
    /\ refs = [f \in RealmFSNames |-> 0]
    /\ rpc = [w \in Workers |-> "idle"]
    /\ oplog = [w \in Workers |-> NewLog("none")]
    /\ serial = FALSE

SpecRealmFSConcurrent == InitRealmFSConcurrent /\ [][RealmNext]_vars

\* Update::create and the dropping of Updates by contenders for one image
InitLock == InitRealmFSConcurrent

SpecLock == InitLock /\ [][LockNext]_vars

\* Interactive updates of one RealmFS image, one after the other
InitUpdate == InitLock

SpecUpdate == InitUpdate /\ [][UpdateNext]_vars

\* Forks of RealmFS images, one call at a time
InitFork ==
    /\ InitRealmFS
    /\ img = [f \in RealmFSNames |-> [hashtree |-> FALSE, sigOk |-> TRUE, trees |-> 0]]
    /\ nosig = FALSE

SpecFork == InitFork /\ [][ForkNext]_vars

\* Forks of RealmFS images by callers running at the same time
InitForkConcurrent == InitRealmFSConcurrent

SpecForkConcurrent == InitForkConcurrent /\ [][ForkNext]_vars

\* Loads of RealmFS image files, by name and by path
InitLoad == InitFork

SpecLoad == InitLoad /\ [][LoadNext]_vars

\* Launches of citadel-realms-ui
InitUi == InitFork

SpecUi == InitUi /\ [][UiNext]_vars

\* Validation of names
InitName == InitFork

SpecName == InitName /\ [][NameNext]_vars

\* Overlays of one realm created and removed, one call at a time
InitOv == InitFork

SpecOv == InitOv /\ [][OvNext]_vars

\* Creation and deletion of one realm, one call at a time
InitCd == InitFork

SpecCd == InitCd /\ [][CdNext]_vars

\* Resizes of a RealmFS image, one at a time
InitRz == InitFork

SpecRz == InitRz /\ [][RzNext]_vars

\* The install page of the installer UI
InitPg == InitFork

SpecPg == InitPg /\ [][PgNext]_vars

\* Mountpoints of RealmFS names and verity tags
InitPf == InitFork

SpecPf == InitPf /\ [][PfNext]_vars

InitSt == InitFork

SpecSt == InitSt /\ [][StNext]_vars

\* ------------------------------------------------- installer backend: claims

Finished(i) == result[i] \notin {"none", "running"}
Failed(i) == Finished(i) /\ result[i] # "ok"

\* The signals sent for install i, in order
SignalsOf(i) == SelectSeq(signals, LAMBDA m : m.inst = i)
\* The messages of install i still in the channel, in order
QueuedOf(i) == SelectSeq(queue, LAMBDA m : m.inst = i /\ m.type # "RunInstall")
TypesOf(seq) == [k \in 1..Len(seq) |-> seq[k].type]
Emitted(i, type) == \E k \in 1..Len(signals) : signals[k].inst = i /\ signals[k].type = type

\* The operation of install i that returned an error (0: none did)
FailIndex(i) ==
    IF \E k \in 1..Len(ran[i]) : ~ran[i][k].ok
    THEN CHOOSE k \in 1..Len(ran[i]) : ~ran[i][k].ok
    ELSE 0

StepOrder == << "partition_disk", "setup_luks", "setup_lvm", "setup_boot",
                "create_storage", "install_rootfs_partitions", "finish_install" >>
StepIndex(step) == CHOOSE n \in 1..Len(StepOrder) : StepOrder[n] = step

\* C1: the signals of an install that succeeded are DiskPartitioned, LuksSetup,
\* LvmSetup, BootSetup, StorageCreated, RootfsInstalled, InstallCompleted, in this
\* order, none missing, none repeated.
C1_SuccessSequence ==
    \A i \in InstallIds :
        Emitted(i, "InstallCompleted") =>
            TypesOf(SignalsOf(i)) = << "DiskPartitioned", "LuksSetup", "LvmSetup", "BootSetup",
                                       "StorageCreated", "RootfsInstalled", "InstallCompleted" >>

\* The stage events of the steps that come before the step that failed
StagesBefore(step) ==
    SubSeq(<< "LuksSetup", "LvmSetup", "BootSetup", "StorageCreated", "RootfsInstalled" >>,
           1, IF StepIndex(step) > 2 THEN StepIndex(step) - 2 ELSE 0)

ExpectedOnFailure(i) ==
    (IF FailIndex(i) = 0 THEN << >> ELSE StagesBefore(PIPELINE[FailIndex(i)].step))
    \o << "InstallFailed" >>

\* C2: when verify or a step of an install fails, what is sent for the install,
\* followed by what is still queued for it, is the stage events of the steps before
\* the failed one and then one InstallFailed that carries the error: InstallFailed
\* is sent once and last, InstallCompleted never, and no stage event for the failed
\* step or a later one.
C2_FailedIsTerminal ==
    \A i \in InstallIds :
        Failed(i) =>
            LET all == SignalsOf(i) \o QueuedOf(i) IN
            /\ TypesOf(all) = ExpectedOnFailure(i)
            /\ all[Len(all)].text = result[i]

\* C2 witness: an install failed in setup_lvm, LuksSetup and InstallFailed were sent
C2_Witness ==
    \E i \in InstallIds :
        /\ Failed(i)
        /\ FailIndex(i) > 0
        /\ PIPELINE[FailIndex(i)].step = "setup_lvm"
        /\ QueuedOf(i) = << >>
        /\ TypesOf(SignalsOf(i)) = << "LuksSetup", "InstallFailed" >>

RequiredArtifacts ==
    {"bootx64.efi", "bzImage", "citadel-kernel.img", EXTRA_IMAGE_NAME, "base-realmfs.img"}

\* C3: an install whose target does not exist or whose artifact directory lacks a
\* required artifact runs no pipeline command and leaves the disk unwritten.
C3_VerifyGuardsDisk ==
    \A i \in InstallIds :
        (result[i] # "none" /\ (~TargetExists(target[i]) \/ ~(RequiredArtifacts \subseteq artifacts)))
            => (ran[i] = << >> /\ ~sys.diskWritten)

\* C4: an operation of the pipeline that fails is the last one its install runs,
\* the operations run are those of the pipeline in order, and the install returns
\* the error of the failed operation.
C4_FailureAborts ==
    \A i \in InstallIds :
        \A k \in 1..Len(ran[i]) :
            /\ ran[i][k].name = PIPELINE[k].name
            /\ ~ran[i][k].ok => (k = Len(ran[i]) /\ result[i] = PIPELINE[k].text)

\* C4 witness: the third parted command of partition_disk failed and the install
\* has returned its error
C4_Witness ==
    \E i \in InstallIds :
        /\ Len(ran[i]) = 4
        /\ ~ran[i][4].ok
        /\ result[i] = "/sbin/parted"

\* C5: once InstallFailed has been sent for an install that failed in a step, no
\* install mount, open LUKS mapping or active volume group is left (the cleanup
\* commands having succeeded).
C5_CleanupOnFailure ==
    \A i \in InstallIds :
        (Emitted(i, "InstallFailed") /\ FailIndex(i) > 0)
            => (~sys.mounted /\ ~sys.luksOpen /\ ~sys.vgActive)

\* setup_luks has returned Ok, or with an error of luksFormat or open
LuksReturned(i) ==
    \/ \E k \in 1..Len(ran[i]) :
        /\ ran[i][k].name = "remove_file LUKS_PASSPHRASE_FILE"
        /\ ran[i][k].ok
    \/ /\ FailIndex(i) > 0
       /\ ran[i][FailIndex(i)].name \in {"cryptsetup luksFormat", "cryptsetup open luks-install"}

\* C6: in every state after setup_luks has returned, with Ok or with an error of
\* luksFormat or open, the passphrase file does not exist.
C6_PassfileGone ==
    \A i \in InstallIds : LuksReturned(i) => ~sys.passfile

\* C7: while an install is in progress the main loop thread is in its dispatch
\* cycle (processing calls, forwarding messages), not inside the pipeline.
C7_LoopNotBlocked ==
    (\E i \in InstallIds : result[i] = "running") => loop \in {"process", "recv"}

\* ------------------------------------------------------------ RealmFS: claims

\* Worker w has just finished operation op
Done(w, op) == rpc[w] = "done" /\ oplog[w].op = op
\* No command or filesystem call of w's operation failed
AllOk(w) == \A k \in 1..Len(oplog[w].steps) : oplog[w].steps[k].ok

StaysMountedWhileRunning ==
    \A r \in running : is_mounted(RealmFSOf(r))

ActivateOkIsActive ==
    \A w \in Workers :
        (Done(w, "activate") /\ oplog[w].res = "ok") => is_mounted(RealmFSOf(w))

TornDown(w) == \E k \in 1..Len(oplog[w].steps) : oplog[w].steps[k].name = "remove_dir"

C10_ActivateIdempotent ==
    [][\A w \in Workers :
        (rpc[w] = "act_check" /\ is_mounted(RealmFSOf(w)) /\ rpc'[w] # rpc[w])
            => /\ mp' = mp
               /\ img' = img
               /\ oplog'[w].steps = << >>
               /\ rpc'[w] \in {"done", "start_ref"}
               /\ rpc'[w] = "done" => oplog'[w].res = "ok"]_vars

\* C10 witness: RealmFS::activate was called on an Active mountpoint and has
\* returned Ok without running anything
C10_Witness ==
    \E w \in Workers :
        /\ Done(w, "activate")
        /\ oplog[w].res = "ok"
        /\ oplog[w].steps = << >>
        /\ is_mounted(RealmFSOf(w))

\* C11: a RealmFS::deactivate that finds the mountpoint in use returns at once and
\* leaves the mount, the dm-verity device and the mountpoint directory as they
\* were.
C11_DeactivateInUseNoop ==
    [][\A w \in Workers :
        (rpc[w] = "rd_inuse" /\ is_in_use(RealmFSOf(w)) /\ rpc'[w] # rpc[w])
            => /\ mp' = mp
               /\ rpc'[w] = "done"
               /\ oplog'[w].steps = << >>]_vars

\* C11 witness: RealmFS::deactivate was called while a realm uses the RealmFS and
\* has returned, the RealmFS still mounted with its verity device and directory
C11_Witness ==
    /\ Done("cli", "deactivate")
    /\ oplog["cli"].steps = << >>
    /\ is_in_use(RealmFSOf("cli"))
    /\ is_mounted(RealmFSOf("cli"))
    /\ verity_exists(RealmFSOf("cli"))
    /\ exists(RealmFSOf("cli"))

\* Worker w is inside Mountpoint::setup_verity
InSetupVerity(w) == rpc[w] \in {"sv_sig", "sv_gen", "sv_setup"}

\* C12: two activate calls for the same RealmFS are never both inside verity
\* setup.
C12_VeritySetupExclusive ==
    \A w1, w2 \in Workers :
        (w1 # w2 /\ RealmFSOf(w1) = RealmFSOf(w2)) => ~(InSetupVerity(w1) /\ InSetupVerity(w2))

\* The contenders that hold an Update of the image
Updates == {c \in Contenders : upc[c] = "update"}

\* C13: at most one Update of the image exists at any time, however contenders
\* interleave Update::create and the dropping of an Update.
C13_OneUpdate == Cardinality(Updates) <= 1

\* The activation of w asked for the signature and it did not verify
SigFailed(w) ==
    \E k \in 1..Len(oplog[w].steps) : oplog[w].steps[k] = [name |-> "verify_signature", ok |-> FALSE]
\* The activation of w ran the step name
Ran(w, name) == \E k \in 1..Len(oplog[w].steps) : oplog[w].steps[k].name = name

\* A RealmFS is mounted only with a signature that verifies, unless nosignatures
\* is set; an activation whose verification failed returns the error and has
\* generated no hashtree, set up no dm-verity device and mounted nothing
SigFailureFatal ==
    /\ \A f \in RealmFSNames : (is_mounted(f) /\ ~nosig) => img[f].sigOk
    /\ \A w \in Workers : (rpc[w] = "done" /\ SigFailed(w)) =>
        /\ oplog[w].res = "err"
        /\ ~Ran(w, "generate_verity")
        /\ ~Ran(w, "verity_setup")
        /\ ~Ran(w, "mount")
        /\ ~verity_exists(RealmFSOf(w))
        /\ ~is_mounted(RealmFSOf(w))

C30_HashtreeOnce ==
    [][/\ \A w \in Workers : (rpc[w] = "sv_gen" /\ rpc'[w] # rpc[w]) =>
            (Ran(w, "generate_verity")' <=> ~img[RealmFSOf(w)].hashtree)
       /\ \A f \in RealmFSNames : img'[f].trees # img[f].trees =>
            /\ \E w \in Workers : rpc[w] = "sv_gen" /\ RealmFSOf(w) = f /\ rpc'[w] # rpc[w]
            /\ ~img[f].hashtree
       /\ \A w \in Workers : rpc'[w] = "sv_setup" => img'[RealmFSOf(w)].hashtree
       /\ \A f \in RealmFSNames : (~verity_exists(f) /\ verity_exists(f)') => img[f].hashtree
       /\ \A f \in RealmFSNames : img'[f].trees <= 1]_vars

\* C30 witness: an activate of an image without the flag generated the
\* hashtree, set the flag, created the dm-verity device and mounted it
C30_Witness ==
    \E w \in Workers :
        /\ Done(w, "activate")
        /\ oplog[w].res = "ok"
        /\ Ran(w, "generate_verity")
        /\ Ran(w, "verity_setup")
        /\ AllOk(w)
        /\ img[RealmFSOf(w)].hashtree
        /\ img[RealmFSOf(w)].trees = 1
        /\ verity_exists(RealmFSOf(w))

\* ------------------------------------------------------------- Update: claims

\* rotate has just returned Ok
Rotated == ust = "applied"
Backups(fs) == {p \in {"backup0", "backup1"} : fs[p] # 0}
Images(fs) == {p \in ImagePaths : fs[p] # 0}

\* C14: after a successful rotate the update file is at the image path, the
\* image that was there is at .img.0, the former .img.0 if any is at .img.1, the
\* update file path is empty and at most NUM_BACKUPS backups exist.
C14_RotateResult ==
    Rotated =>
        /\ rpre.target # 0
        /\ files.current = rpre.target
        /\ files.backup0 = rpre.current
        /\ rpre.backup0 # 0 => files.backup1 = rpre.backup0
        /\ files.target = 0
        /\ Cardinality(Backups(files)) <= NUM_BACKUPS

\* C14 witness: the second update was rotated in; the first update is the
\* backup .img.0, the original image the backup .img.1
C14_Witness ==
    /\ Rotated
    /\ files = [current |-> 3, backup0 |-> 2, backup1 |-> 1, target |-> 0]

\* C15: an image exists at the current image path in every state.
C15_CurrentAlwaysExists == files.current # 0

\* C16: a rotate that has succeeded leaves at least as many files among the
\* image, .img.0 and .img.1 as there were when it began, and never more than 3.
C16_NoImageLost ==
    /\ Cardinality(Images(files)) <= 3
    /\ Rotated => Cardinality(Images(files)) >= Cardinality(Images(rpre))

\* C16 witness: a rotate that began with the image and both backups has
\* succeeded: the oldest backup was replaced and three files exist
C16_Witness ==
    /\ Rotated
    /\ Cardinality(Images(rpre)) = 3
    /\ Cardinality(Images(files)) = 3
    /\ files.backup1 = rpre.backup0

Happened(name, ok) == \E k \in 1..Len(ulog) : ulog[k] = [name |-> name, ok |-> ok]

\* The update copy was renamed to the image path only after a successful
\* unmount, then hashtree generation, then signed metainfo written
RenamedAfterSealed ==
    \A k \in 1..Len(ulog) :
        ulog[k] = [name |-> "rename target current", ok |-> TRUE] =>
            \E h \in 1..k, m \in 1..k, n \in 1..k :
                /\ h < m /\ m < n /\ n < k
                /\ ulog[h] = [name |-> "umount", ok |-> TRUE]
                /\ ulog[m] = [name |-> "generate_image_hashtree_with_salt", ok |-> TRUE]
                /\ ulog[n] = [name |-> "update_metainfo", ok |-> TRUE]

\* The image and its backups are as they were when the Update was created
ImagesUntouched == \A p \in ImagePaths : files[p] = pre[p]

SealFailed ==
    \/ Happened("generate_image_hashtree_with_salt", FALSE)
    \/ Happened("update_metainfo", FALSE)

\* C17: the update copy is renamed to the image path only after it was
\* unmounted, its hashtree regenerated and its metainfo signed and written, in
\* this order; when sealing fails or the user declines, the image and its
\* backups are unchanged.
C17_SealedBeforeRotate ==
    /\ RenamedAfterSealed
    /\ (ust # "none" /\ (SealFailed \/ Happened("do not apply", TRUE))) => ImagesUntouched

\* Some cleanup of the Update has run to its end
AfterCleanup == ust \in {"drop", "finished"} /\ Happened("cleanup", TRUE)

\* What cleanup is there to remove is gone
CleanedUp ==
    /\ ~mdir
    /\ umounts = 0
    /\ files.target = 0
    /\ Happened("allocate_address_for", TRUE) => ~addr

NoCleanupFailure ==
    \A k \in 1..Len(ulog) :
        ulog[k].name \in {"umount", "remove_dir", "remove_file", "free_allocation_for"} => ulog[k].ok

InCleanup ==
    \/ ust \in {"cleanup", "cleanup_copy", "cleanup_network"}
    \/ ust \in {"unmount_update_image", "remove_dir"} /\ uret = "cleanup_copy"

ForkSucceeded(f) == fpc[f] = "done" /\ fres[f] = "ok"
ForkedMetaInfo(f) == MetaInfo(images[fname[f]].bytes)
SourceMetaInfo(f) == MetaInfo(fsnap[f][fsrc[f]].bytes)

Rejected == {"Invalid realm name", "already exists", "no signing keys available"}

\* A step of fork by f
StepOf(f) == fpc'[f] # fpc[f]

\* C20, first two parts: a fork rejected for its name, for an image that is
\* there, or for absent keys creates no file, and no step of a fork overwrites
\* or removes an image at its target path that the fork did not make
C20_ExistingImageKept ==
    [][\A f \in Forkers :
        /\ (fpc'[f] = "done" /\ fres'[f] \in Rejected /\ StepOf(f)) => images' = images
        /\ (StepOf(f) /\ fname[f] \in ImageNames /\ path_exists(fname[f])
              /\ images[fname[f]].by # f)
             => images'[fname[f]] = images[fname[f]]]_vars

\* C20, last part: when fork fails after its copy was made, no file of the
\* fork is left at the target path
C20_PartialCopyRemoved ==
    \A f \in Forkers :
        (fpc[f] = "done" /\ fres[f] = "Failed to fork RealmFS")
            => ~(path_exists(fname[f]) /\ images[fname[f]].by = f)

\* ------------------------------------------------------ RealmFS load: claims

\* C21: every image file that load_from_path or load_by_name opens
\* successfully has a header signature that verifies under the public key
\* resolved from its channel
C21_LoadedIsVerified ==
    (lpc = "done" /\ lres = "ok") => verify_signature(lfile)

\* ------------------------------------------- citadel-realms-ui: claims

\* The processes whose socket is bound to the name
Holders == {i \in Instances : holder = i}

\* C23: at every moment at most one process holds the socket name, and bind
\* returns true only in the process whose own bind succeeded; on AddressInUse
\* or any other bind error it returns false
C23_SingleHolder ==
    /\ Cardinality(Holders) <= 1
    /\ \A i \in Instances :
        /\ iret[i] = "true" => (bres[i] = "BindOk" /\ holder = i)
        /\ (ipc[i] \in {"main", "exit"} /\ bres[i] \in {"BindAddrInUse", "BindFailed"})
              => iret[i] = "false"
    /\ Cardinality({i \in Instances : iret[i] = "true"}) <= 1

\* C23 witness: one process holds the name and shows the UI, a second found the
\* address in use and a third failed to bind otherwise; bind returned false to both
C23_Witness ==
    \E i, j \in Instances :
        /\ holder = i /\ iret[i] = "true" /\ ipc[i] = "main"
        /\ bres[j] = "BindAddrInUse" /\ iret[j] = "false"

\* The reader thread of process i has come back from accept, or will without a
\* connection being made: process i quits its main loop at a coming tick
QuitsAnyway(i) == rd[i] \in {"idle_add", "done"} \/ (rd[i] = "accept" /\ ~listening)

AsciiLetters == {c \in DOMAIN CodePoint : CodePoint[c] \in (65..90) \cup (97..122)}
AsciiDigits == {c \in DOMAIN CodePoint : CodePoint[c] \in 48..57}

\* C25: name validation accepts exactly the strings of length 1 to 40 whose
\* first character is an ASCII letter and whose remaining characters are ASCII
\* letters, ASCII digits or '-'; every other string is rejected
C25_ValidNames ==
    vres \in {"accepted", "rejected"} =>
        (vres = "accepted" <=>
            /\ Len(vname) \in 1..40
            /\ vname[1] \in AsciiLetters
            /\ \A k \in 2..Len(vname) : vname[k] \in AsciiLetters \cup AsciiDigits \cup {"-"})

\* C25 witness: a name of 40 characters with a dash in it was accepted
C25_Witness ==
    /\ vres = "accepted"
    /\ Len(vname) = 40
    /\ \E k \in 2..Len(vname) : vname[k] = "-"

\* ---------------------------------------------------------- RealmOverlay: claims

\* C26: for a TmpFS or Storage overlay, a remove that follows create(lower)
\* returns the path lower that was passed to create, and after the remove the
\* overlay directory (or subvolume) does not exist; create over an existing
\* overlay directory tears the old one down before it sets the overlay up
C26_OverlayRoundTrip ==
    /\ (opc = "done" /\ oarg.op = "remove" /\ ores.ok) =>
        /\ ~ov[oarg.overlay].dir
        /\ lastcreate[oarg.overlay].ok => ores.path = lastcreate[oarg.overlay].lower
    /\ (opc = "upperdir" /\ oarg.overlay = "TmpFS") => ov[oarg.overlay] = Absent
    /\ (opc = "upperdir" /\ oarg.overlay = "Storage") => ov[oarg.overlay] = Empty

\* C26 witness: a create returned Ok and the remove after it has returned the
\* lower path of that create; the overlay directory is gone
C26_Witness ==
    /\ opc = "done"
    /\ oarg.op = "remove"
    /\ ores.ok
    /\ lastcreate[oarg.overlay].ok
    /\ ores.path = lastcreate[oarg.overlay].lower
    /\ ores.path \in Lowers
    /\ ov[oarg.overlay] = Absent

\* --------------------------------------------------- RealmCreateDestroy: claims

\* A complete realm directory: its home is populated and nothing of it is
\* missing or was taken out by a delete_realm
Complete(t) == t.dir /\ t.home = "full" /\ t.rest \in {"none", "full"} /\ ~t.cut

\* C27: in every reachable state of create and delete_realm, including after
\* a failure, /realms/realm-<name> either does not exist or is a complete realm
\* directory: a partially populated or partially deleted tree is only ever
\* under /realms/.tmp
C27_RealmDirAtomic == ~final.dir \/ Complete(final)

\* C27, last part: a failed create leaves neither a final directory it made
\* nor its staging directory
C27_FailedCreateLeavesNothing ==
    (cpc = "done" /\ cop.op = "create" /\ cres = "error") => (~final.dir /\ ~staging.dir)


\* ------------------------------------------------------------ resize: claims

\* C28: auto_resize_size returns no recommendation when the free block count
\* of the image's superblock is at least 1 GiB (262144 blocks), and otherwise
\* recommends the current image size rounded up to the next 4 GiB boundary: a
\* multiple of 1048576 blocks that is not below the image size (with or
\* without the header block) and at most 4 GiB above it, whatever the free
\* block count is
C28_AutoResize ==
    (rzpc # "idle" /\ rzimg.sb) =>
        IF rzimg.free >= gigs(1)
        THEN auto = None
        ELSE /\ auto.some
             /\ auto.nblocks % gigs(4) = 0
             /\ auto.nblocks >= rzimg.nblocks
             /\ auto.nblocks <= rzimg.nblocks + 1 + gigs(4)

\* C29: when resize_image_file runs with a requested block count n, then if n
\* is more than 8 GiB (2097152 blocks) above the size of the image or below
\* it the operation fails and the length of the update copy is as it was, and
\* for any other n the length of the copy becomes n+1 blocks unless the file
\* cannot be opened or set_len fails
C29_ResizeCapped ==
    [][(rzpc \in {"resize_image_file 1", "resize_image_file 2"} /\ resize.some) =>
        LET n == resize.nblocks IN
        IF n - rzimg.nblocks > gigs(8) \/ n < rzimg.nblocks
        THEN /\ rzpc' = "done"
             /\ rzres' \in {"Cannot shrink image", "maximum of 8gb"}
             /\ target_len' = target_len
        ELSE rzres' # "set_len failed" => (target_len' = n + 1 /\ rzres' = "none" /\ rzpc' # "done")]_vars

\* C29 witness: a resize asked for more than 8 GiB above the image was refused
\* with the update copy made
C29_Witness ==
    /\ rzpc = "done"
    /\ rzres = "maximum of 8gb"
    /\ resize.nblocks - rzimg.nblocks > gigs(8)
    /\ target_len # 0


\* ------------------------------------------------- installer: end of install

\* Where the operation called name succeeded in what install i ran (0: nowhere)
DoneAt(i, name) ==
    IF \E k \in 1..Len(ran[i]) : ran[i][k].name = name /\ ran[i][k].ok
    THEN CHOOSE k \in 1..Len(ran[i]) :
            /\ ran[i][k].name = name /\ ran[i][k].ok
            /\ \A j \in (k + 1)..Len(ran[i]) : ~(ran[i][j].name = name /\ ran[i][j].ok)
    ELSE 0

\* Install i unmounted the storage volume, installed both rootfs slots,
\* deactivated the volume group and closed the LUKS mapping, in this order
FinishedInOrder(i) ==
    /\ 0 < DoneAt(i, "umount storage")
    /\ DoneAt(i, "umount storage") < DoneAt(i, "citadel-image install-rootfs")
    /\ DoneAt(i, "citadel-image install-rootfs") < DoneAt(i, "citadel-image install-rootfs --no-prefer")
    /\ DoneAt(i, "citadel-image install-rootfs --no-prefer") < DoneAt(i, "vgchange -an citadel")
    /\ DoneAt(i, "vgchange -an citadel") < DoneAt(i, "cryptsetup luksClose luks-install")
    /\ \A k \in 1..Len(ran[i]) :
        ran[i][k].name \in {"mount boot", "mount storage"} => k < DoneAt(i, "umount storage")

\* C31: when run_install returns Ok for an install, nothing is mounted at
\* /run/installer/mnt, the volume group is not active and the luks-install
\* mapping is closed; the install unmounted, then installed both rootfs slots,
\* then deactivated the volume group, then closed the mapping, and an install
\* whose InstallCompleted is emitted did so
C31_FinishedClean ==
    [][\A i \in InstallIds :
        /\ (result[i] # "ok" /\ result'[i] = "ok") =>
              /\ ~sys'.mounted /\ ~sys'.vgActive /\ ~sys'.luksOpen
              /\ FinishedInOrder(i)'
        /\ Emitted(i, "InstallCompleted")' => FinishedInOrder(i)']_vars

\* C31 witness: an install completed and its InstallCompleted was emitted
C31_Witness ==
    \E i \in InstallIds :
        /\ result[i] = "ok"
        /\ Emitted(i, "InstallCompleted")
        /\ ran[i][Len(ran[i])].name = "cryptsetup luksClose luks-install"


\* ------------------------------------------------------ installer UI: claims

\* C32: the progress fraction of the installer UI is within [0,1] after every
\* progress message, InstallFailed included
C32_FractionInRange == fraction >= 0 /\ fraction <= 10000

\* C32, second part: over the messages of one install arriving in pipeline
\* order the fraction never decreases
C32_NeverDecreases ==
    [][InPipelineOrder(progress') => fraction' >= fraction]_vars


\* -------------------------------------------------- Mountpoint names: claims

\* C33: for every valid RealmFS name, names with dashes and names that begin
\* with "realmfs-" included, and every verity tag, the file name of
\* Mountpoint::new(name, tag) parses back to the same name and tag, and
\* Mountpoint::verity_device() is the device name Verity::setup creates
C33_ParseRoundTrip ==
    pfpc = "parsed" =>
        /\ parse_filename(pfmp) = [some |-> TRUE, realmfs |-> pfname, tag |-> pftag]
        /\ pfdev = [ok |-> TRUE, name |-> device_name(pfname, pftag)]


\* ------------------------------------------- RealmFS in use: concurrent start

\* C34: the mountpoint of a RealmFS is never unmounted while a running realm
\* uses it, however RealmFS::deactivate interleaves with the start of a realm
\* on the same RealmFS: the RealmFS of every running realm is mounted
C34_MountedWhileRunning ==
    \A w \in running : is_mounted(RealmFSOf(w))


\* ------------------------------------------------- file lock: failed acquire

\* C35: a nonblocking_acquire that fails because the lock is held has no
\* effect on the holder: when the contender that was refused drops what it
\* had built, the lock file at the path stays the file it was, which the
\* holder has locked
C35_FailedAcquireNoEffect ==
    [][\A c \in Contenders :
        (/\ upc[c] \in {"drop_remove", "drop_unlock"}
         /\ ures[c] = "Unable to obtain file lock"
         /\ upc'[c] # upc[c]) =>
            /\ lockfile' = lockfile
            /\ \A h \in Contenders : upc[h] = "update" => (lockfile' = ufd[h] /\ Locked(ufd[h])')]_vars


\* ------------------------------------------------ stale image header: claims

\* C36: RealmFS::activate works on the mountpoint derived from the verity tag
\* of the image header on disk: the directory it creates, the dm-verity device
\* it sets up and the mountpoint it mounts on all carry that tag, also when the
\* header was replaced after the RealmFS was loaded
C36_ActivateOnDiskTag ==
    [][/\ (stpc = "mkdir" /\ stdirs' # stdirs) => stdirs' = stdirs \cup {hdisk}
       /\ (stpc = "setup" /\ stdevs' # stdevs) => stdevs' = stdevs \cup {hdisk}
       /\ (stpc = "mount" /\ stmnt' # stmnt) => stmnt' = stmnt \cup {hdisk}]_vars

\* C37: when activate returns an error the mountpoint is back to Absent: its
\* directory is removed, nothing is mounted there and no dm-verity device set
\* up by that call remains
C37_FailedActivateAbsent ==
    [][(stpc # "idle" /\ stpc' = "idle" /\ stres' # "ok") =>
        /\ stself \notin stdirs'
        /\ stself \notin stmnt'
        /\ stmade' = 0 \/ stmade' \notin stdevs']_vars


\* ------------------------------------------------------ resize: after return

\* C38: after resize_grow_by or resize_grow_to has returned Ok for a target
\* larger than the current size, the image file at its path has grown to the
\* requested block count and the nblocks of its header reflects it
C38_GrowApplied ==
    (/\ rzpc = "returned"
     /\ rzop \in {"grow_to", "grow_by"}
     /\ rzres = "ok"
     /\ resize.some
     /\ resize.nblocks > rzimg.nblocks) =>
        /\ file_nblocks >= resize.nblocks + 1
        /\ rzimg.nblocks = resize.nblocks


\* C39: whenever auto_resize_size returns a size for an image, the size is
\* larger than the block count of the image and exceeds it by at most 8 GiB,
\* whatever the free block count below 1 GiB and the image size are, so that
\* an Update that keeps the automatic size never fails in resize_image_file
\* with "Cannot shrink image" or the 8 GiB limit
C39_AutoSizeAccepted ==
    (rzpc # "idle" /\ auto.some) =>
        /\ auto.nblocks > rzimg.nblocks
        /\ auto.nblocks - rzimg.nblocks <= gigs(8)
        /\ resize = auto => rzres \notin {"Cannot shrink image", "maximum of 8gb"}


\* ------------------------------------------------- installer: queued requests

\* The events of install i produced so far, in the order the loop forwards
\* them: those forwarded, then those still in the channel
EventsOf(i) ==
    SelectSeq(signals, LAMBDA m : m.inst = i)
        \o SelectSeq(queue, LAMBDA m : m.inst = i /\ m.type # "RunInstall")

\* The RunInstall requests in the channel
Requested == {queue[k].inst : k \in {n \in 1..Len(queue) : queue[n].type = "RunInstall"}}

\* C40: the backend never runs two install pipelines at the same time: a
\* RunInstall call is answered by a step that only enqueues its request and
\* runs nothing, the requests are executed one at a time in the order the calls
\* arrived, and the events of each install are forwarded in the order they
\* were produced
C40_OneAtATime ==
    [][/\ Cardinality({i \in DOMAIN result : result[i] = "running"}) <= 1
       /\ \A i \in DOMAIN result :
            /\ (\E k \in 1..Len(pending) : pending[k].method = "RunInstall" /\ pending[k].n = i)
                    /\ pending' = << >>
                => /\ i \in Requested'
                   /\ \E c \in replies' : c.method = "RunInstall" /\ c.n = i
                   /\ result' = result /\ ran' = ran /\ sys' = sys
            /\ (result[i] = "none" /\ result'[i] = "running")
                => /\ loop' = "install" /\ cur' = i
                   /\ \A j \in 1..(i - 1) : result[j] \notin {"none", "running"}
            /\ IsPrefix(EventsOf(i), EventsOf(i)')]_vars

\* C40 witness: the second request was in the channel before any event of the
\* first install, and its install runs once the first has ended, none of the
\* first one's events being forwarded yet
C40_Witness ==
    /\ loop = "install"
    /\ cur = 2
    /\ result[1] \notin {"none", "running"}
    /\ Len(SelectSeq(signals, LAMBDA m : m.inst = 1)) = 0

====
